---- MODULE Spec2Model ----
(***************************************************************************)
(* Model of the recipe backend's daily usage counter                       *)
(* (src/src/middleware/rateLimiter.js, recipeGenerationLimiter) and of     *)
(* the Stripe webhook endpoint with its handlers (the subscription router  *)
(* kept in src/README.md, lines 902-1082), over the two tables of          *)
(* src/database-schema.sql they share: public.users and                    *)
(* public.recipe_usage.                                                    *)
(*                                                                         *)
(* The browser client's recipe path (src/server.js, class RecipeApp:       *)
(* parseIngredients, findBestMatchingRecipe, customizeRecipe and what it   *)
(* calls) and the backend's enhanceRecipe (src/unnamed/part_000) are pure  *)
(* functions of one submitted form; SpecRecipe applies them to every form  *)
(* of a bounded set.                                                       *)
(*                                                                         *)
(* Every `await` of the middleware is a suspension point, so one request   *)
(* is three steps: the select on users, the select on recipe_usage and     *)
(* the insert/update on recipe_usage.  Each step runs the store operation  *)
(* and the synchronous code up to the next await.                          *)
(***************************************************************************)
EXTENDS Integers, FiniteSets, Sequences, TLC

\* ------------------------------------------------------------------ bounds
NumReq == 2          \* request slots: requests that can be in flight at once
MaxRequests == 2     \* requests started in one behaviour of SpecLimiter
MaxInterleaved == 1  \* requests started in one behaviour of Spec, of SpecRoute
MaxDay == 2          \* calendar days the clock runs through

\* ------------------------------------------------------------- value sets
Users == {"u1"}
IPs == {"ip1"}
NoUser == "anonymous"
Identifiers == Users \cup IPs
Days == 1..MaxDay
Keys == Identifiers \X Days
NoKey == <<"none", 0>>
Reqs == 1..NumReq

\* public.users.subscription_status / subscription_tier CHECK constraints
StatusValues == {"free", "active", "cancelled", "past_due", "trialing"}
TierValues == {"free", "premium"}

\* a row of public.users as the handlers see it
DefaultUser == [subscription_status |-> "free", subscription_tier |-> "free"]
PremiumUser == [subscription_status |-> "active", subscription_tier |-> "premium"]
NoUserRow == [subscription_status |-> "none", subscription_tier |-> "none"]

\* the client before a form is submitted: no form data, no recipe
NoForm == [ingredients |-> <<>>, cuisine |-> "", cookingTime |-> "",
           dietary |-> <<>>, skillLevel |-> ""]
NoRecipe == [name |-> <<>>, prepTime |-> <<>>, cookTime |-> <<>>,
             totalTime |-> <<>>, difficulty |-> "", ingredients |-> <<>>]

\* a row of public.recipe_usage; exists = FALSE stands for "no row"
NoUsage == [exists |-> FALSE, count |-> 0]
UsageRow(n) == [exists |-> TRUE, count |-> n]

VARIABLES
  users,      \* public.users: user id -> row
  usage,      \* public.recipe_usage: (identifier, date) -> row or NoUsage
  clock,      \* the current calendar day (new Date() truncated to the date)
  req,        \* request slot -> the locals of an in-flight limiter call
  started,    \* number of requests started so far
  admitted,   \* (identifier, date) -> number of next() calls on the quota path
  taint,      \* (identifier, date) -> "clean" | "overlap" | "fault"
  last,       \* what the step that led here answered (NoOutcome: nothing)
  upgraded,   \* user id -> a premium-granting event was applied and no
              \* later event has changed the row's status or tier
  cancelled,  \* user id -> a subscription-deleted event was applied and no
              \* checkout-completed or subscription-created event came later
  formData,        \* RecipeApp: what getFormData() collected
  selectedRecipe,  \* createPrototypeRecipe: the template it selected
  recipe,          \* generateRecipe: the recipe it is about to display
  currentScreen,   \* RecipeApp.currentScreen
  recipeCount,     \* RecipeApp.recipeCount
  isGenerating,    \* RecipeApp.isGenerating
  paywall,         \* whether #paywall carries the class active
  timers,          \* the screen ids of the pending showScreen timers, oldest first
  run,             \* where generateRecipe is suspended ("idle": nowhere)
  hostname         \* window.location.hostname

recipeVars == <<formData, selectedRecipe, recipe>>
appVars == <<currentScreen, recipeCount, isGenerating, paywall, timers, run, hostname>>
historyVars == <<upgraded, cancelled>>
vars == <<users, usage, clock, req, started, admitted, taint, last, upgraded,
          cancelled, formData, selectedRecipe, recipe, currentScreen,
          recipeCount, isGenerating, paywall, timers, run, hostname>>

\* --------------------------------------------------- recipeGenerationLimiter
maxFreeRecipes == 3

\* if (user && user.subscription_status === 'active' && user.subscription_tier === 'premium')
IsPremiumSwapped(user) ==
  /\ user.subscription_status = "premium"
  /\ user.subscription_tier = "active"
IsPremiumPlanName(user) ==
  /\ user.subscription_status = "active"
  /\ user.subscription_tier = "Premium"
IsPremium(user) ==
  /\ user # NoUserRow
  /\ user.subscription_status = "active"
  /\ user.subscription_tier = "premium"

\* supabase.from('users').select(...).eq('id', userId).single()
SelectUser(tbl, userId, fault) ==
  IF fault THEN [data |-> NoUserRow, error |-> "other"]
  ELSE [data |-> tbl[userId], error |-> "none"]

\* supabase.from('recipe_usage').select('count').eq(identifier).eq(date).single()
SelectUsage(tbl, k, fault) ==
  IF fault THEN [data |-> NoUsage, error |-> "other"]
  ELSE IF tbl[k].exists THEN [data |-> tbl[k], error |-> "none"]
  ELSE [data |-> NoUsage, error |-> "PGRST116"]

\* if (usageError && usageError.code !== 'PGRST116')
ReadFailedNever(usageError) == FALSE
ReadFailed(usageError) == usageError # "none" /\ usageError # "PGRST116"

\* const currentCount = usageRecord?.count || 0
CurrentCount(usageRecord) == IF usageRecord.exists THEN usageRecord.count ELSE 0

\* if (currentCount >= maxFreeRecipes)
LimitReachedOffByOne(currentCount) == currentCount > maxFreeRecipes
LimitReached(currentCount) == currentCount >= maxFreeRecipes

\* res.status(429).json({ error, message, limit, current, upgradeUrl })
LimitResponse(currentCount) ==
  [status |-> 429, limit |-> maxFreeRecipes, current |-> currentCount,
   upgradeUrl |-> "/membership"]

\* the store's answer to the insert or update of lines 79-94: the new table.
\* An update rewrites the row it matches; an insert is refused by
\* UNIQUE(identifier, date) when a row is already there.
IncrementUsageInStore(tbl, k, usageRecord, currentCount, fault) ==
  IF fault THEN tbl
  ELSE IF usageRecord.exists
    THEN IF tbl[k].exists THEN [tbl EXCEPT ![k] = UsageRow(tbl[k].count + 1)]
         ELSE tbl
    ELSE IF tbl[k].exists THEN tbl
         ELSE [tbl EXCEPT ![k] = UsageRow(1)]
IncrementUsage(tbl, k, usageRecord, currentCount, fault) ==
  IF fault THEN tbl
  ELSE IF usageRecord.exists
    THEN IF tbl[k].exists THEN [tbl EXCEPT ![k] = UsageRow(currentCount + 1)]
         ELSE tbl
    ELSE IF tbl[k].exists THEN tbl
         ELSE [tbl EXCEPT ![k] = UsageRow(1)]

\* the table after the 429 branch of lines 68-76: nothing is written
UsageAfterLimitCounted(tbl, k, currentCount) ==
  [tbl EXCEPT ![k] = UsageRow(currentCount + 1)]
UsageAfterLimit(tbl, k, currentCount) == tbl

\* lines 96-101: the result of the write is never inspected; next() follows
AdmitAfterWriteChecked(writeFailed) == ~writeFailed
AdmitAfterWrite(writeFailed) == TRUE

IdleSlot ==
  [pc |-> "idle", userId |-> NoUser, ip |-> "none", user |-> NoUserRow,
   today |-> 0, usageRecord |-> NoUsage, currentCount |-> 0]

KeyOfFirstDay(slot) ==
  <<IF slot.userId # NoUser THEN slot.userId ELSE slot.ip, IF slot.today > 1 THEN 1 ELSE slot.today>>
KeyOf(slot) ==
  <<IF slot.userId # NoUser THEN slot.userId ELSE slot.ip, slot.today>>

\* requests other than r that are between their usage select and their write
Busy(r, k) ==
  \E q \in Reqs \ {r} : req[q].pc \in {"selectUsage", "write"} /\ KeyOf(req[q]) = k

Overlap(t, r, k) ==
  IF Busy(r, k) /\ t[k] = "clean" THEN [t EXCEPT ![k] = "overlap"] ELSE t

Fault(t, k) == [t EXCEPT ![k] = "fault"]

\* what the middleware answered: a status (0 when it answered nothing and
\* called next()), the JSON body, and whether the write behind it failed
LimiterOutcome(slot, k, status, didNext, body, writeFault) ==
  [kind |-> "limiter", userId |-> slot.userId, key |-> k, status |-> status,
   next |-> didNext, body |-> body, writeFailed |-> writeFault]

NoOutcome == [kind |-> "none"]

NoBody == [status |-> 0, limit |-> 0, current |-> 0, upgradeUrl |-> "none"]
ErrorBody == [status |-> 500, limit |-> 0, current |-> 0, upgradeUrl |-> "none"]

\* The window opens on day 1.  Every user has a row, free (the column
\* defaults) or premium, and every identifier has had 0 to 3 requests
\* admitted that day, one after the other and without a store fault, so its
\* row counts them.
Init ==
  /\ users \in [Users -> {DefaultUser, PremiumUser}]
  /\ \E used \in [Identifiers -> 0..maxFreeRecipes] :
       /\ usage = [k \in Keys |->
                     IF k[2] = 1 /\ used[k[1]] > 0 THEN UsageRow(used[k[1]])
                     ELSE NoUsage]
       /\ admitted = [k \in Keys |-> IF k[2] = 1 THEN used[k[1]] ELSE 0]
  /\ clock = 1
  /\ req = [r \in Reqs |-> IdleSlot]
  /\ started = 0
  /\ taint = [k \in Keys |-> "clean"]
  /\ last = NoOutcome
  /\ upgraded = [u \in Users |-> FALSE]
  /\ cancelled = [u \in Users |-> FALSE]
  /\ formData = NoForm
  /\ selectedRecipe = NoRecipe
  /\ recipe = NoRecipe
  /\ currentScreen = "landing"
  /\ recipeCount = 0
  /\ isGenerating = FALSE
  /\ paywall = FALSE
  /\ timers = <<>>
  /\ run = "idle"
  /\ hostname = "localhost"

\* lines 24-35 (and 49-58 for an anonymous caller): the request arrives,
\* arrival being what the middleware before the limiter did
StartAfter(r, userId, ip, arrival) ==
  /\ started < MaxRequests
  /\ req[r].pc = "idle"
  /\ \A q \in Reqs : q < r => req[q].pc # "idle"
  /\ started' = started + 1
  /\ IF userId # NoUser
       THEN /\ req' = [req EXCEPT ![r] =
                 [IdleSlot EXCEPT !.pc = "checkUser", !.userId = userId, !.ip = ip]]
            /\ taint' = taint
       ELSE LET slot == [IdleSlot EXCEPT !.pc = "selectUsage", !.ip = ip,
                                         !.today = clock]
            IN /\ req' = [req EXCEPT ![r] = slot]
               /\ taint' = Overlap(taint, r, KeyOf(slot))
  /\ last' = arrival
  /\ UNCHANGED <<users, usage, clock, admitted>>
  /\ UNCHANGED <<historyVars, recipeVars, appVars>>

\* the limiter alone, with req.user as given
Start(r, userId, ip) == StartAfter(r, userId, ip, NoOutcome)

\* lines 31-58: the users row arrives
CheckUser(r, fault) ==
  /\ req[r].pc = "checkUser"
  /\ LET res == SelectUser(users, req[r].userId, fault)
         slot == [req[r] EXCEPT !.user = res.data]
     IN IF res.error # "none"
          THEN /\ last' = LimiterOutcome(slot, NoKey, 500, FALSE, ErrorBody, FALSE)
               /\ req' = [req EXCEPT ![r] = IdleSlot]
               /\ taint' = taint
          ELSE IF IsPremium(res.data)
          THEN /\ last' = LimiterOutcome(slot, NoKey, 0, TRUE, NoBody, FALSE)
               /\ req' = [req EXCEPT ![r] = IdleSlot]
               /\ taint' = taint
          ELSE LET s2 == [slot EXCEPT !.pc = "selectUsage", !.today = clock]
               IN /\ req' = [req EXCEPT ![r] = s2]
                  /\ taint' = Overlap(taint, r, KeyOf(s2))
                  /\ last' = NoOutcome
  /\ UNCHANGED <<users, usage, clock, started, admitted>>
  /\ UNCHANGED <<historyVars, recipeVars, appVars>>

\* lines 53-94: the usage row arrives
ReadUsage(r, fault) ==
  /\ req[r].pc = "selectUsage"
  /\ LET k == KeyOf(req[r])
         res == SelectUsage(usage, k, fault)
         currentCount == CurrentCount(res.data)
     IN IF ReadFailed(res.error)
          THEN /\ last' = LimiterOutcome(req[r], k, 500, FALSE, ErrorBody, FALSE)
               /\ req' = [req EXCEPT ![r] = IdleSlot]
               /\ taint' = Fault(taint, k)
               /\ usage' = usage
          ELSE IF LimitReached(currentCount)
          THEN /\ last' = LimiterOutcome(req[r], k, 429, FALSE,
                                         LimitResponse(currentCount), FALSE)
               /\ req' = [req EXCEPT ![r] = IdleSlot]
               /\ taint' = IF fault THEN Fault(taint, k) ELSE taint
               /\ usage' = UsageAfterLimit(usage, k, currentCount)
          ELSE /\ req' = [req EXCEPT ![r] = [req[r] EXCEPT !.pc = "write",
                            !.usageRecord = res.data, !.currentCount = currentCount]]
               /\ taint' = IF fault THEN Fault(taint, k) ELSE taint
               /\ usage' = usage
               /\ last' = NoOutcome
  /\ UNCHANGED <<users, clock, started, admitted>>
  /\ UNCHANGED <<historyVars, recipeVars, appVars>>

\* lines 79-101: the insert or update returns
WriteUsage(r, fault) ==
  /\ req[r].pc = "write"
  /\ LET k == KeyOf(req[r])
     IN /\ usage' = IncrementUsage(usage, k, req[r].usageRecord, req[r].currentCount, fault)
        /\ taint' = IF fault THEN Fault(taint, k) ELSE taint
        /\ IF AdmitAfterWrite(fault)
             THEN /\ admitted' = [admitted EXCEPT ![k] = @ + 1]
                  /\ last' = LimiterOutcome(req[r], k, 0, TRUE, NoBody, fault)
             ELSE /\ admitted' = admitted
                  /\ last' = LimiterOutcome(req[r], k, 500, FALSE, ErrorBody, fault)
        /\ req' = [req EXCEPT ![r] = IdleSlot]
  /\ UNCHANGED <<users, clock, started>>
  /\ UNCHANGED <<historyVars, recipeVars, appVars>>

\* ------------------------------------------- POST /api/subscription/webhook
EventTypes ==
  {"checkout.session.completed", "customer.subscription.created",
   "customer.subscription.updated", "customer.subscription.deleted",
   "invoice.payment_succeeded", "invoice.payment_failed", "customer.created"}

\* session.metadata.plan and subscription.status as the provider may send them
Plans == {"premium", "basic"}
ProviderStatuses == {"active", "past_due", "canceled", "trialing"}

\* event.data.object, reduced to the fields the handlers read
Object(userId, plan, status) == [userId |-> userId, plan |-> plan, status |-> status]

Events ==
  [type : {"checkout.session.completed"},
   object : {Object(u, p, "none") : u \in Users, p \in Plans}]
  \cup
  [type : {"customer.subscription.updated"},
   object : {Object(u, "none", s) : u \in Users, s \in ProviderStatuses}]
  \cup
  [type : EventTypes \ {"checkout.session.completed", "customer.subscription.updated"},
   object : {Object(u, "none", "none") : u \in Users}]

\* the faults a delivery can meet: the store refusing the update, and
\* stripe.subscriptions.retrieve rejecting (invoice events only)
UsesStore(type) ==
  type \in {"checkout.session.completed", "customer.subscription.created",
            "customer.subscription.updated", "customer.subscription.deleted",
            "invoice.payment_succeeded"}
UsesStripe(type) == type \in {"invoice.payment_succeeded", "invoice.payment_failed"}

\* the CHECK constraints of public.users
RowAllowedAnything(row) == TRUE
RowAllowed(row) ==
  /\ row.subscription_status \in StatusValues
  /\ row.subscription_tier \in TierValues

\* supabase.from('users').update(patch).eq('id', userId): the new table and
\* the error the call resolves with.  The store refuses the update on a fault
\* or a CHECK violation; an id that matches no row updates nothing.
UpdateUser(tbl, userId, patch, fault) ==
  IF userId \notin DOMAIN tbl THEN [users |-> tbl, error |-> FALSE]
  ELSE LET row == [f \in DOMAIN tbl[userId] |->
                     IF f \in DOMAIN patch THEN patch[f] ELSE tbl[userId][f]]
       IN IF fault \/ ~RowAllowed(row) THEN [users |-> tbl, error |-> TRUE]
          ELSE [users |-> [tbl EXCEPT ![userId] = row], error |-> FALSE]

\* A handler yields the new users table, whether it let an exception escape
\* to the route (never: every handler body is inside try/catch) and whether
\* its update was refused (the handlers do not look at that).
Handled(upd) == [users |-> upd.users, threw |-> FALSE, updateError |-> upd.error]
Unchanged(tbl) == [users |-> tbl, threw |-> FALSE, updateError |-> FALSE]

HandleCheckoutSessionCompletedTrial(tbl, session, fault) ==
  Handled(UpdateUser(tbl, session.userId,
            [subscription_status |-> "trialing",
             subscription_tier |-> session.plan], fault))
HandleCheckoutSessionCompleted(tbl, session, fault) ==
  Handled(UpdateUser(tbl, session.userId,
            [subscription_status |-> "active",
             subscription_tier |-> session.plan], fault))

HandleSubscriptionCreatedInSteps(tbl, subscription, fault) ==
  Handled(UpdateUser(tbl, subscription.userId,
            IF subscription.userId \in DOMAIN tbl
               /\ tbl[subscription.userId].subscription_status = "active"
              THEN [subscription_status |-> "active",
                    subscription_tier |-> "premium"]
              ELSE [subscription_status |-> "active"], fault))
HandleSubscriptionCreated(tbl, subscription, fault) ==
  Handled(UpdateUser(tbl, subscription.userId,
            [subscription_status |-> "active",
             subscription_tier |-> "premium"], fault))

HandleSubscriptionUpdated(tbl, subscription, fault) ==
  Handled(UpdateUser(tbl, subscription.userId,
            [subscription_status |-> subscription.status], fault))

HandleSubscriptionDeletedKeepTier(tbl, subscription, fault) ==
  Handled(UpdateUser(tbl, subscription.userId,
            [subscription_status |-> "cancelled"], fault))
HandleSubscriptionDeleted(tbl, subscription, fault) ==
  Handled(UpdateUser(tbl, subscription.userId,
            [subscription_status |-> "cancelled",
             subscription_tier |-> "free"], fault))

\* stripeFault: stripe.subscriptions.retrieve rejects; the catch logs it
HandlePaymentSucceededRestoresTier(tbl, invoice, fault, stripeFault) ==
  IF stripeFault THEN Unchanged(tbl)
  ELSE Handled(UpdateUser(tbl, invoice.userId,
                 [subscription_status |-> "active",
                  subscription_tier |-> "premium"], fault))
HandlePaymentSucceededUncaught(tbl, invoice, fault, stripeFault) ==
  IF stripeFault THEN [users |-> tbl, threw |-> TRUE, updateError |-> FALSE]
  ELSE Handled(UpdateUser(tbl, invoice.userId,
                 [subscription_status |-> "active"], fault))
HandlePaymentSucceeded(tbl, invoice, fault, stripeFault) ==
  IF stripeFault THEN Unchanged(tbl)
  ELSE Handled(UpdateUser(tbl, invoice.userId,
                 [subscription_status |-> "active"], fault))

\* the catch logs a rejected retrieve; nothing is written either way
HandlePaymentFailedMarksPastDue(tbl, invoice, stripeFault) ==
  IF stripeFault THEN Unchanged(tbl)
  ELSE Handled(UpdateUser(tbl, invoice.userId,
                 [subscription_status |-> "past_due"], FALSE))
HandlePaymentFailed(tbl, invoice, stripeFault) == Unchanged(tbl)

\* the name of the handler the switch of lines 921-948 calls
HandlerFor(type) ==
  CASE type = "checkout.session.completed" -> "handleCheckoutSessionCompleted"
    [] type = "customer.subscription.created" -> "handleSubscriptionCreated"
    [] type = "customer.subscription.updated" -> "handleSubscriptionUpdated"
    [] type = "customer.subscription.deleted" -> "handleSubscriptionDeleted"
    [] type = "invoice.payment_succeeded" -> "handlePaymentSucceeded"
    [] type = "invoice.payment_failed" -> "handlePaymentFailed"
    [] OTHER -> "none"

\* switch (event.type) { ... }
Dispatch(tbl, event, fault, stripeFault) ==
  CASE event.type = "checkout.session.completed" ->
         HandleCheckoutSessionCompleted(tbl, event.object, fault)
    [] event.type = "customer.subscription.created" ->
         HandleSubscriptionCreated(tbl, event.object, fault)
    [] event.type = "customer.subscription.updated" ->
         HandleSubscriptionUpdated(tbl, event.object, fault)
    [] event.type = "customer.subscription.deleted" ->
         HandleSubscriptionDeleted(tbl, event.object, fault)
    [] event.type = "invoice.payment_succeeded" ->
         HandlePaymentSucceeded(tbl, event.object, fault, stripeFault)
    [] event.type = "invoice.payment_failed" ->
         HandlePaymentFailed(tbl, event.object, stripeFault)
    [] OTHER -> Unchanged(tbl)

\* the route's answer: 400 from the catch around constructEvent, 500 from
\* the outer catch, otherwise res.json({ received: true })
WebhookStatus(sigValid, threw) ==
  IF ~sigValid THEN 400 ELSE IF threw THEN 500 ELSE 200

\* what the route runs: nothing is dispatched unless constructEvent has
\* accepted the signature
WebhookHandledUnverified(tbl, event, sigValid, fault, stripeFault) ==
  Dispatch(tbl, event, fault, stripeFault)
WebhookHandled(tbl, event, sigValid, fault, stripeFault) ==
  IF sigValid THEN Dispatch(tbl, event, fault, stripeFault) ELSE Unchanged(tbl)

\* line 909: no event is constructed from a payload whose signature fails
NoEvent == [type |-> "none", object |-> Object("none", "none", "none")]

\* what the route answered, which handler it called for which user and
\* event, whether the store refused that handler's update, whether the
\* delivery met a store or provider outage, and whether it repeats the
\* delivery just before it (the same event, verified, no outage either time)
WebhookOutcome(event, sigValid, handled, faulted, previous) ==
  [kind |-> "webhook", verified |-> sigValid,
   status |-> WebhookStatus(sigValid, handled.threw),
   handler |-> IF sigValid THEN HandlerFor(event.type) ELSE "none",
   userId |-> event.object.userId,
   updateFailed |-> handled.updateError,
   event |-> IF sigValid THEN event ELSE NoEvent,
   faulted |-> faulted,
   repeat |-> /\ sigValid /\ ~faulted
              /\ previous.kind = "webhook"
              /\ previous.verified /\ ~previous.faulted
              /\ previous.event = event]

\* the events that grant premium: checkout completed for the premium plan
\* and subscription created
GrantsPremium(event) ==
  \/ event.type = "checkout.session.completed" /\ event.object.plan = "premium"
  \/ event.type = "customer.subscription.created"

\* history of the deliveries: set by a verified premium-granting event the
\* store accepted, cleared by any later delivery that changes the user's
\* status or tier
Upgraded(was, before, after, event, sigValid, updateError) ==
  [u \in Users |->
     IF u = event.object.userId /\ sigValid /\ ~updateError /\ GrantsPremium(event)
       THEN TRUE
     ELSE IF after[u] # before[u] THEN FALSE
     ELSE was[u]]

\* history of the deliveries: set by a verified subscription-deleted event
\* the store accepted, cleared by a later verified checkout-completed or
\* subscription-created event
Cancelled(was, event, sigValid, updateError) ==
  [u \in Users |->
     IF u # event.object.userId \/ ~sigValid THEN was[u]
     ELSE IF event.type = "customer.subscription.deleted" /\ ~updateError THEN TRUE
     ELSE IF event.type \in {"checkout.session.completed",
                             "customer.subscription.created"} THEN FALSE
     ELSE was[u]]

\* lines 903-957: one delivery of the payments provider
Webhook(event, sigValid, fault, stripeFault) ==
  /\ LET handled == WebhookHandled(users, event, sigValid, fault, stripeFault)
     IN /\ users' = handled.users
        /\ last' = WebhookOutcome(event, sigValid, handled,
                                  fault \/ stripeFault, last)
        /\ upgraded' = Upgraded(upgraded, users, handled.users, event,
                                sigValid, handled.updateError)
        /\ cancelled' = Cancelled(cancelled, event, sigValid, handled.updateError)
  /\ UNCHANGED <<usage, clock, req, started, admitted, taint>>
  /\ UNCHANGED <<recipeVars, appVars>>

\* new Date().toISOString().split('T')[0] moves on to the next day
Tick ==
  /\ clock < MaxDay
  /\ clock' = clock + 1
  /\ last' = NoOutcome
  /\ UNCHANGED <<users, usage, req, started, admitted, taint>>
  /\ UNCHANGED <<historyVars, recipeVars, appVars>>

\* the usage counter alone: no subscription changes while requests run
NextLimiter ==
  \/ \E r \in Reqs, u \in Users \cup {NoUser}, ip \in IPs : Start(r, u, ip)
  \/ \E r \in Reqs, fault \in BOOLEAN : CheckUser(r, fault)
  \/ \E r \in Reqs, fault \in BOOLEAN : ReadUsage(r, fault)
  \/ \E r \in Reqs, fault \in BOOLEAN : WriteUsage(r, fault)
  \/ Tick

SpecLimiter == Init /\ [][NextLimiter]_vars

\* the requests of signed-in users interleaved with webhook deliveries, which
\* change the subscription the limiter reads; anonymous callers have no row
InitSigned ==
  /\ Init
  /\ \A k \in Keys : k[1] \in IPs => ~usage[k].exists

Next ==
  \/ \E r \in Reqs, u \in Users, ip \in IPs :
       started < MaxInterleaved /\ Start(r, u, ip)
  \/ \E r \in Reqs, fault \in BOOLEAN : CheckUser(r, fault)
  \/ \E r \in Reqs, fault \in BOOLEAN : ReadUsage(r, fault)
  \/ \E r \in Reqs, fault \in BOOLEAN : WriteUsage(r, fault)
  \/ \E e \in Events : Webhook(e, FALSE, FALSE, FALSE)
  \/ \E e \in Events, fault \in BOOLEAN, stripeFault \in BOOLEAN :
       /\ fault => UsesStore(e.type) /\ ~stripeFault
       /\ stripeFault => UsesStripe(e.type)
       /\ Webhook(e, TRUE, fault, stripeFault)

Spec == InitSigned /\ [][Next]_vars

\* the webhook route alone: deliveries arrive while no request is in flight
NextWebhook ==
  \/ \E e \in Events : Webhook(e, FALSE, FALSE, FALSE)
  \/ \E e \in Events, fault \in BOOLEAN, stripeFault \in BOOLEAN :
       /\ fault => UsesStore(e.type) /\ ~stripeFault
       /\ stripeFault => UsesStripe(e.type)
       /\ Webhook(e, TRUE, fault, stripeFault)

SpecWebhook == InitSigned /\ [][NextWebhook]_vars

\* ------------------------------------------------ RecipeApp (src/server.js)
\* A string is the sequence of its UTF-16 code units.  A Hangul syllable is
\* one unit, spelled in Latin letters (a leading ' is the silent initial);
\* an emoji is its two surrogates, written as their hexadecimal values.

MaxTokens == 2       \* ingredients typed into one form

Min(S) == CHOOSE x \in S : \A y \in S : x <= y
Max(S) == CHOOSE x \in S : \A y \in S : x >= y

\* String.prototype.toLowerCase: only the Latin capitals have a lower case
lowerCase ==
  [A |-> "a", B |-> "b", C |-> "c", D |-> "d", E |-> "e", F |-> "f",
   G |-> "g", H |-> "h", I |-> "i", J |-> "j", K |-> "k", L |-> "l",
   M |-> "m", N |-> "n", O |-> "o", P |-> "p", Q |-> "q", R |-> "r",
   S |-> "s", T |-> "t", U |-> "u", V |-> "v", W |-> "w", X |-> "x",
   Y |-> "y", Z |-> "z"]
ToLowerCase(s) ==
  [i \in 1..Len(s) |-> IF s[i] \in DOMAIN lowerCase THEN lowerCase[s[i]] ELSE s[i]]

\* s.includes(t)
Includes(s, t) ==
  \E i \in 0..(Len(s) - Len(t)) : \A j \in 1..Len(t) : s[i + j] = t[j]

\* s.replace(from, to) with a string pattern: the first occurrence only
Replace(s, from, to) ==
  LET at == {i \in 0..(Len(s) - Len(from)) : \A j \in 1..Len(from) : s[i + j] = from[j]}
  IN IF at = {} THEN s
     ELSE SubSeq(s, 1, Min(at)) \o to \o SubSeq(s, Min(at) + Len(from) + 1, Len(s))

\* list.join(sep)
RECURSIVE Join(_, _)
Join(list, sep) ==
  IF Len(list) = 0 THEN <<>>
  ELSE IF Len(list) = 1 THEN list[1]
  ELSE list[1] \o sep \o Join(Tail(list), sep)

\* s.split(/[,\n]/) and s.split(' '): the pieces between the separators
RECURSIVE Split(_, _)
Split(s, separators) ==
  LET at == {i \in 1..Len(s) : s[i] \in separators}
  IN IF at = {} THEN <<s>>
     ELSE <<SubSeq(s, 1, Min(at) - 1)>>
          \o Split(SubSeq(s, Min(at) + 1, Len(s)), separators)

\* s.trim()
Trim(s) ==
  LET kept == {i \in 1..Len(s) : s[i] \notin {" ", "\n", "\t"}}
  IN IF kept = {} THEN <<>> ELSE SubSeq(s, Min(kept), Max(kept))

\* lines 324-330
ParseIngredients(ingredientsString) ==
  LET pieces == Split(ToLowerCase(ingredientsString), {",", "\n"})
      trimmed == [i \in 1..Len(pieces) |-> Trim(pieces[i])]
  IN SelectSeq(trimmed, LAMBDA ingredient : Len(ingredient) > 0)

\* lines 362-671: the templates, by category, in the order of the literal
getRecipeTemplates ==
  [korean |-> <<
     \* line 366: 김치볶음밥
     [name |-> <<"gim", "chi", "bokk", "'eum", "bab">>,
      prepTime |-> <<"1", "0", "bun">>, cookTime |-> <<"1", "5", "bun">>,
      totalTime |-> <<"2", "5", "bun">>, difficulty |-> "easy",
      ingredients |-> <<
        <<"bab", " ", "2", "gong", "gi">>,  \* 밥 2공기
        <<"gim", "chi", " ", "1", "keob">>,  \* 김치 1컵
        <<"dwae", "ji", "go", "gi", " ", "1", "0", "0", "g">>,  \* 돼지고기 100g
        <<"dal", "gyal", " ", "2", "gae">>,  \* 달걀 2개
        <<"pa", " ", "2", "dae">>,  \* 파 2대
        <<"ma", "neul", " ", "2", "jjog">>,  \* 마늘 2쪽
        <<"cham", "gi", "reum", " ", "1", "keun", "sul">>,  \* 참기름 1큰술
        <<"gan", "jang", " ", "1", "keun", "sul">>  \* 간장 1큰술
      >>],
     \* line 403: 된장찌개
     [name |-> <<"doen", "jang", "jji", "gae">>,
      prepTime |-> <<"1", "5", "bun">>, cookTime |-> <<"2", "0", "bun">>,
      totalTime |-> <<"3", "5", "bun">>, difficulty |-> "easy",
      ingredients |-> <<
        <<"doen", "jang", " ", "3", "keun", "sul">>,  \* 된장 3큰술
        <<"du", "bu", " ", "1", "/", "2", "mo">>,  \* 두부 1/2모
        <<"gam", "ja", " ", "1", "gae">>,  \* 감자 1개
        <<"'yang", "pa", " ", "1", "/", "2", "gae">>,  \* 양파 1/2개
        <<"'ae", "ho", "bag", " ", "1", "/", "3", "gae">>,  \* 애호박 1/3개
        <<"cheong", "'yang", "go", "chu", " ", "2", "gae">>,  \* 청양고추 2개
        <<"ma", "neul", " ", "3", "jjog">>,  \* 마늘 3쪽
        <<"myeol", "chi", "'yug", "su", " ", "2", "keob">>  \* 멸치육수 2컵
      >>]
  >>,
   italian |-> <<
     \* line 442: 크림 파스타
     [name |-> <<"keu", "rim", " ", "pa", "seu", "ta">>,
      prepTime |-> <<"1", "0", "bun">>, cookTime |-> <<"2", "0", "bun">>,
      totalTime |-> <<"3", "0", "bun">>, difficulty |-> "easy",
      ingredients |-> <<
        <<"pa", "seu", "ta", " ", "2", "0", "0", "g">>,  \* 파스타 200g
        <<"saeng", "keu", "rim", " ", "2", "0", "0", "m", "l">>,  \* 생크림 200ml
        <<"be", "'i", "keon", " ", "1", "0", "0", "g">>,  \* 베이컨 100g
        <<"'yang", "pa", " ", "1", "/", "2", "gae">>,  \* 양파 1/2개
        <<"ma", "neul", " ", "3", "jjog">>,  \* 마늘 3쪽
        <<"pa", "ma", "san", " ", "chi", "jeu", " ", "5", "0", "g">>,  \* 파마산 치즈 50g
        <<"'ol", "ri", "beu", "'o", "'il", " ", "2", "keun", "sul">>,  \* 올리브오일 2큰술
        <<"so", "geum", ",", " ", "hu", "chu", " ", "'yag", "gan">>  \* 소금, 후추 약간
      >>],
     \* line 473: 토마토 파스타
     [name |-> <<"to", "ma", "to", " ", "pa", "seu", "ta">>,
      prepTime |-> <<"1", "5", "bun">>, cookTime |-> <<"2", "5", "bun">>,
      totalTime |-> <<"4", "0", "bun">>, difficulty |-> "easy",
      ingredients |-> <<
        <<"pa", "seu", "ta", " ", "2", "0", "0", "g">>,  \* 파스타 200g
        <<"to", "ma", "to", " ", "kaen", " ", "1", "gae">>,  \* 토마토 캔 1개
        <<"'yang", "pa", " ", "1", "gae">>,  \* 양파 1개
        <<"ma", "neul", " ", "4", "jjog">>,  \* 마늘 4쪽
        <<"ba", "jil", " ", "'ip", " ", "1", "0", "jang">>,  \* 바질 잎 10장
        <<"'ol", "ri", "beu", "'o", "'il", " ", "3", "keun", "sul">>,  \* 올리브오일 3큰술
        <<"so", "geum", ",", " ", "hu", "chu">>,  \* 소금, 후추
        <<"pa", "ma", "san", " ", "chi", "jeu">>  \* 파마산 치즈
      >>]
  >>,
   asian |-> <<
     \* line 506: 볶음면
     [name |-> <<"bokk", "'eum", "myeon">>,
      prepTime |-> <<"1", "0", "bun">>, cookTime |-> <<"1", "5", "bun">>,
      totalTime |-> <<"2", "5", "bun">>, difficulty |-> "easy",
      ingredients |-> <<
        <<"ra", "myeon", " ", "2", "gae">>,  \* 라면 2개
        <<"'yang", "bae", "chu", " ", "2", "'ip">>,  \* 양배추 2잎
        <<"dang", "geun", " ", "1", "/", "2", "gae">>,  \* 당근 1/2개
        <<"'yang", "pa", " ", "1", "/", "2", "gae">>,  \* 양파 1/2개
        <<"gan", "jang", " ", "2", "keun", "sul">>,  \* 간장 2큰술
        <<"gul", "so", "seu", " ", "1", "keun", "sul">>,  \* 굴소스 1큰술
        <<"cham", "gi", "reum", " ", "1", "keun", "sul">>,  \* 참기름 1큰술
        <<"sig", "'yong", "'yu", " ", "2", "keun", "sul">>  \* 식용유 2큰술
      >>]
  >>,
   mexican |-> <<
     \* line 539: 치킨 부리또
     [name |-> <<"chi", "kin", " ", "bu", "ri", "tto">>,
      prepTime |-> <<"2", "0", "bun">>, cookTime |-> <<"1", "5", "bun">>,
      totalTime |-> <<"3", "5", "bun">>, difficulty |-> "medium",
      ingredients |-> <<
        <<"to", "reu", "ti", "'ya", " ", "4", "jang">>,  \* 토르티야 4장
        <<"dalg", "ga", "seum", "sal", " ", "3", "0", "0", "g">>,  \* 닭가슴살 300g
        <<"'yang", "pa", " ", "1", "gae">>,  \* 양파 1개
        <<"pi", "mang", " ", "1", "gae">>,  \* 피망 1개
        <<"to", "ma", "to", " ", "1", "gae">>,  \* 토마토 1개
        <<"chi", "jeu", " ", "1", "0", "0", "g">>,  \* 치즈 100g
        <<"sa", "'wo", "keu", "rim">>,  \* 사워크림
        <<"ta", "ko", " ", "si", "jeu", "ning">>  \* 타코 시즈닝
      >>]
  >>,
   default |-> <<
     \* line 572: 닭가슴살 야채볶음
     [name |-> <<"dalg", "ga", "seum", "sal", " ", "'ya", "chae", "bokk", "'eum">>,
      prepTime |-> <<"1", "0", "bun">>, cookTime |-> <<"1", "5", "bun">>,
      totalTime |-> <<"2", "5", "bun">>, difficulty |-> "easy",
      ingredients |-> <<
        <<"dalg", "ga", "seum", "sal", " ", "2", "0", "0", "g">>,  \* 닭가슴살 200g
        <<"'yang", "pa", " ", "1", "gae">>,  \* 양파 1개
        <<"pi", "mang", " ", "2", "gae">>,  \* 피망 2개
        <<"ma", "neul", " ", "3", "jjog">>,  \* 마늘 3쪽
        <<"gan", "jang", " ", "2", "keun", "sul">>,  \* 간장 2큰술
        <<"'ol", "ri", "beu", "'o", "'il", " ", "2", "keun", "sul">>,  \* 올리브오일 2큰술
        <<"so", "geum", ",", " ", "hu", "chu", " ", "'yag", "gan">>  \* 소금, 후추 약간
      >>],
     \* line 608: 계란볶음밥
     [name |-> <<"gye", "ran", "bokk", "'eum", "bab">>,
      prepTime |-> <<"5", "bun">>, cookTime |-> <<"1", "0", "bun">>,
      totalTime |-> <<"1", "5", "bun">>, difficulty |-> "easy",
      ingredients |-> <<
        <<"bab", " ", "1", "gong", "gi">>,  \* 밥 1공기
        <<"gye", "ran", " ", "2", "gae">>,  \* 계란 2개
        <<"pa", " ", "1", "dae">>,  \* 파 1대
        <<"ma", "neul", " ", "1", "jjog">>,  \* 마늘 1쪽
        <<"gan", "jang", " ", "1", "keun", "sul">>,  \* 간장 1큰술
        <<"cham", "gi", "reum", " ", "1", "jag", "'eun", "sul">>,  \* 참기름 1작은술
        <<"sig", "'yong", "'yu", " ", "2", "keun", "sul">>,  \* 식용유 2큰술
        <<"so", "geum", " ", "'yag", "gan">>  \* 소금 약간
      >>],
     \* line 639: 샐러드
     [name |-> <<"sael", "reo", "deu">>,
      prepTime |-> <<"1", "5", "bun">>, cookTime |-> <<"0", "bun">>,
      totalTime |-> <<"1", "5", "bun">>, difficulty |-> "easy",
      ingredients |-> <<
        <<"'yang", "sang", "chu", " ", "1", "tong">>,  \* 양상추 1통
        <<"to", "ma", "to", " ", "2", "gae">>,  \* 토마토 2개
        <<"'o", "'i", " ", "1", "gae">>,  \* 오이 1개
        <<"dang", "geun", " ", "1", "/", "2", "gae">>,  \* 당근 1/2개
        <<"'ol", "ri", "beu", "'o", "'il", " ", "3", "keun", "sul">>,  \* 올리브오일 3큰술
        <<"sig", "cho", " ", "1", "keun", "sul">>,  \* 식초 1큰술
        <<"so", "geum", ",", " ", "hu", "chu">>,  \* 소금, 후추
        <<"chi", "jeu", " ", "(", "seon", "taeg", ")">>  \* 치즈 (선택)
      >>]
  >>]

\* the keys of the literal in their iteration order, and every template of
\* the catalog in that order
Categories == <<"korean", "italian", "asian", "mexican", "default">>
Catalog ==
  getRecipeTemplates.korean \o getRecipeTemplates.italian
  \o getRecipeTemplates.asian \o getRecipeTemplates.mexican
  \o getRecipeTemplates.default

\* lines 333-338: the templates findBestMatchingRecipe goes through
AllRecipes(recipes) ==
  recipes.korean \o recipes.italian \o recipes.asian \o recipes.default

\* lines 344-351: the user ingredients found in the joined ingredient text
Score(template, userIngredients) ==
  LET recipeIngredients == ToLowerCase(Join(template.ingredients, <<" ">>))
  IN Cardinality({j \in 1..Len(userIngredients) :
                    Includes(recipeIngredients, userIngredients[j])})

\* lines 332-360
FindBestMatchingRecipe(userIngredients, recipes) ==
  LET allRecipes == AllRecipes(recipes)
      score == [i \in 1..Len(allRecipes) |-> Score(allRecipes[i], userIngredients)]
      best[i \in 0..Len(allRecipes)] ==
        IF i = 0 THEN [bestMatch |-> allRecipes[1], bestScore |-> 0]
        ELSE LET before == best[i - 1]
             IN IF score[i] > before.bestScore
                  THEN [bestMatch |-> allRecipes[i], bestScore |-> score[i]]
                ELSE before
  IN best[Len(allRecipes)].bestMatch

\* line 688: the quantity given to an ingredient the template does not have
QuantityMarker == <<" ">> \o <<"jeog", "dang", "ryang">>

\* lines 681-684
IsAlreadyIncludedOneWay(customizedIngredients, userIngredient) ==
  \E i \in 1..Len(customizedIngredients) :
    Includes(ToLowerCase(customizedIngredients[i]), userIngredient)
IsAlreadyIncluded(customizedIngredients, userIngredient) ==
  \E i \in 1..Len(customizedIngredients) :
    \/ Includes(ToLowerCase(customizedIngredients[i]), userIngredient)
    \/ Includes(userIngredient,
                Split(ToLowerCase(customizedIngredients[i]), {" "})[1])

\* lines 677-690: the template's ingredients, then the user's that are new
AddUserIngredients(ingredients, userIngredients) ==
  LET customizedIngredients[j \in 0..Len(userIngredients)] ==
        IF j = 0 THEN ingredients
        ELSE LET before == customizedIngredients[j - 1]
             IN IF /\ ~IsAlreadyIncluded(before, userIngredients[j])
                   /\ Len(userIngredients[j]) > 2
                  THEN Append(before, userIngredients[j] \o QuantityMarker)
                ELSE before
  IN customizedIngredients[Len(userIngredients)]

\* lines 694-699
timeAdjustments ==
  [quick |-> [prep |-> <<"5", "bun">>, cook |-> <<"1", "0", "bun">>, total |-> <<"1", "5", "bun">>],
   medium |-> [prep |-> <<"1", "0", "bun">>, cook |-> <<"2", "0", "bun">>, total |-> <<"3", "0", "bun">>],
   long |-> [prep |-> <<"1", "5", "bun">>, cook |-> <<"4", "5", "bun">>, total |-> <<"6", "0", "bun">>],
   extended |-> [prep |-> <<"3", "0", "bun">>, cook |-> <<"9", "0", "bun">>, total |-> <<"1", "2", "0", "bun">>]]

\* lines 693-707
AdjustTime(customizedRecipe, cookingTime) ==
  IF cookingTime # "" /\ cookingTime \in DOMAIN timeAdjustments
    THEN [customizedRecipe EXCEPT !.prepTime = timeAdjustments[cookingTime].prep,
                                  !.cookTime = timeAdjustments[cookingTime].cook,
                                  !.totalTime = timeAdjustments[cookingTime].total]
  ELSE customizedRecipe

\* the values of the dietary field
Vegetarian == <<"v", "e", "g", "e", "t", "a", "r", "i", "a", "n">>
Vegan == <<"v", "e", "g", "a", "n">>
GlutenFree == <<"g", "l", "u", "t", "e", "n", "-", "f", "r", "e", "e">>
Keto == <<"k", "e", "t", "o">>
Paleo == <<"p", "a", "l", "e", "o">>

\* lines 743-777: the replace lists (the avoid lists are never read)
restrictions ==
  (Vegetarian :> <<[from |-> <<"dalg", "ga", "seum", "sal">>, to |-> <<"du", "bu">>],
                   [from |-> <<"dwae", "ji", "go", "gi">>, to |-> <<"beo", "seos">>],
                   [from |-> <<"soe", "go", "gi">>, to |-> <<"kong", "go", "gi">>]>>)
  @@ (Vegan :> <<[from |-> <<"dal", "gyal">>, to |-> <<"'a", "ku", "'a", "pa", "ba">>],
                 [from |-> <<"'u", "'yu">>, to |-> <<"du", "'yu">>],
                 [from |-> <<"beo", "teo">>, to |-> <<"'ol", "ri", "beu", "'o", "'il">>],
                 [from |-> <<"chi", "jeu">>, to |-> <<"'yeong", "'yang", "hyo", "mo">>]>>)
  @@ (GlutenFree :> <<[from |-> <<"mil", "ga", "ru">>, to |-> <<"ssal", "ga", "ru">>],
                      [from |-> <<"myeon">>, to |-> <<"ssal", "myeon">>],
                      [from |-> <<"ppang">>, to |-> <<"ssal", "ppang">>]>>)
  @@ (Keto :> <<[from |-> <<"ssal">>, to |-> <<"kol", "ri", "peul", "ra", "'wo", " ", "ra", "'i", "seu">>],
                [from |-> <<"gam", "ja">>, to |-> <<"mu">>],
                [from |-> <<"seol", "tang">>, to |-> <<"seu", "te", "bi", "'a">>]>>)

\* lines 742-796
ApplyDietaryRestrictions(rcp, dietary) ==
  IF dietary \notin DOMAIN restrictions THEN rcp
  ELSE LET replace == restrictions[dietary]
           modifiedIngredients[k \in 0..Len(replace)] ==
             IF k = 0 THEN rcp.ingredients
             ELSE LET before == modifiedIngredients[k - 1]
                  IN [i \in 1..Len(rcp.ingredients) |->
                        IF Includes(before[i], replace[k].from)
                          THEN Replace(before[i], replace[k].from, replace[k].to)
                        ELSE before[i]]
       IN [rcp EXCEPT !.ingredients = modifiedIngredients[Len(replace)],
                      !.name = @ \o <<" ", "(">> \o dietary \o <<")">>]

\* lines 798-805
levelMap == [beginner |-> "easy", intermediate |-> "medium", advanced |-> "hard"]
AdjustDifficultyOrEasy(currentDifficulty, skillLevel) ==
  IF skillLevel \in DOMAIN levelMap THEN levelMap[skillLevel] ELSE "easy"
AdjustDifficulty(currentDifficulty, skillLevel) ==
  IF skillLevel \in DOMAIN levelMap THEN levelMap[skillLevel] ELSE currentDifficulty

\* lines 721-732: the marker of each cuisine, and the one for any other
FryingPan == <<"D83C", "DF73">>
Spaghetti == <<"D83C", "DF5D">>
cuisineEmojis ==
  [korean |-> <<"D83C", "DF5A">>, italian |-> Spaghetti, asian |-> <<"D83C", "DF5C">>,
   mexican |-> <<"D83C", "DF2E">>, american |-> <<"D83C", "DF54">>,
   mediterranean |-> <<"D83E", "DD59">>, indian |-> <<"D83C", "DF5B">>,
   french |-> <<"D83E", "DD50">>]
CuisineEmoji(cuisine) ==
  IF cuisine \in DOMAIN cuisineEmojis THEN cuisineEmojis[cuisine] ELSE FryingPan

\* line 720: the class of the pattern has no u flag, so it holds the
\* surrogates of the nine markers one by one
MarkerUnits ==
  {"D83C", "D83E", "DF73", "DF5D", "DF5A", "DF5C", "DF2E", "DF54", "DD59",
   "DF5B", "DD50"}
MatchesMarker(name) == \E i \in 1..Len(name) : name[i] \in MarkerUnits

\* lines 719-734
AddCuisineEmoji(name, cuisine) ==
  IF ~MatchesMarker(name) THEN CuisineEmoji(cuisine) \o <<" ">> \o name ELSE name

\* lines 673-740
CustomizeRecipe(rcp, form, userIngredients) ==
  LET customizedIngredients == AddUserIngredients(rcp.ingredients, userIngredients)
      timed == AdjustTime(rcp, form.cookingTime)
      restricted == IF form.dietary # <<>>
                      THEN ApplyDietaryRestrictions(timed, form.dietary)
                    ELSE timed
      adjusted == IF form.skillLevel # ""
                    THEN [restricted EXCEPT
                            !.difficulty = AdjustDifficulty(@, form.skillLevel)]
                  ELSE restricted
      named == [adjusted EXCEPT !.name = AddCuisineEmoji(@, form.cuisine)]
  IN [named EXCEPT !.ingredients = customizedIngredients]

\* src/unnamed/part_000 lines 258-299.  The file stores its emoji literals
\* in a damaged encoding (UTF-8 bytes read as Windows-1252, bytes without a
\* character dropped); byte for byte they are the markers of lines 721-732
\* above, the two tested at line 293 being the frying pan and the spaghetti.
\* A recipe field the model does not have (<<>>, "") is one the AI left out.
DeliciousRecipe == <<"D", "e", "l", "i", "c", "i", "o", "u", "s", " ", "R", "e", "c", "i", "p", "e">>
EnhanceRecipe(rcp, options) ==
  LET enhanced ==
        [name |-> IF rcp.name = <<>> THEN DeliciousRecipe ELSE rcp.name,
         prepTime |-> IF rcp.prepTime = <<>> THEN <<"1", "0", "bun">> ELSE rcp.prepTime,
         cookTime |-> IF rcp.cookTime = <<>> THEN <<"2", "0", "bun">> ELSE rcp.cookTime,
         totalTime |-> IF rcp.totalTime = <<>> THEN <<"3", "0", "bun">> ELSE rcp.totalTime,
         difficulty |-> IF rcp.difficulty = "" THEN "easy" ELSE rcp.difficulty,
         ingredients |-> rcp.ingredients]
  IN IF /\ options.cuisine # ""
        /\ ~Includes(enhanced.name, FryingPan)
        /\ ~Includes(enhanced.name, Spaghetti)
       THEN [enhanced EXCEPT !.name = CuisineEmoji(options.cuisine) \o <<" ">> \o @]
     ELSE enhanced

\* what the form can hold: one to MaxTokens ingredients separated by commas,
\* and an option of each select, unset (""), known or unknown
RawIngredients ==
  {<<"bab">>, <<"dalg", "ga", "seum", "sal">>,
   <<"gim", "chi", "jji", "gae">>, <<" ", "1", "0", "0", "G">>}
IngredientTexts ==
  {Join(l, <<",">>) : l \in UNION {[1..n -> RawIngredients] : n \in 1..MaxTokens}}
Cuisines == {"", "korean", "mexican", "fusion"}
CookingTimes == {"", "quick"}
Dietaries == {<<>>, Vegetarian, Vegan, GlutenFree, Keto, Paleo}
SkillLevels == {"", "beginner", "intermediate", "advanced", "expert"}
FormDatas ==
  [ingredients : IngredientTexts, cuisine : Cuisines, cookingTime : CookingTimes,
   dietary : Dietaries, skillLevel : SkillLevels]

\* what the model answers to the prompt: a recipe with a plain name and one
\* whose name already carries a cuisine marker
AIRecipes ==
  {[NoRecipe EXCEPT !.name = n] :
     n \in {<<"bi", "bim", "bab">>, <<"D83C", "DF5A">> \o <<" ">> \o <<"bi", "bim", "bab">>}}

\* line 310: if (formData.cuisine && recipes[formData.cuisine])
CuisineHasTemplatesWithoutIngredients(recipes, cuisine) ==
  cuisine # "" /\ cuisine \in DOMAIN recipes /\ formData.ingredients = <<>>
CuisineHasTemplates(recipes, cuisine) ==
  cuisine # "" /\ cuisine \in DOMAIN recipes

\* which branch of lines 310-316 selected the template: the pick within the
\* cuisine, or findBestMatchingRecipe
SelectOutcome(cuisine, matcher) ==
  [kind |-> "select", cuisine |-> cuisine, matcher |-> matcher]

\* lines 301-316: createPrototypeRecipe selects a template, at random within
\* the cuisine when the catalog has that cuisine, by the ingredients otherwise
SelectRecipe ==
  /\ formData # NoForm
  /\ selectedRecipe = NoRecipe
  /\ recipe = NoRecipe
  /\ IF CuisineHasTemplates(getRecipeTemplates, formData.cuisine)
       THEN /\ \E i \in 1..Len(getRecipeTemplates[formData.cuisine]) :
                 selectedRecipe' = getRecipeTemplates[formData.cuisine][i]
            /\ last' = SelectOutcome(formData.cuisine, FALSE)
       ELSE /\ selectedRecipe' =
                 FindBestMatchingRecipe(ParseIngredients(formData.ingredients),
                                        getRecipeTemplates)
            /\ last' = SelectOutcome(formData.cuisine, TRUE)
  /\ UNCHANGED <<formData, recipe>>
  /\ UNCHANGED <<users, usage, clock, req, started, admitted, taint, historyVars>>
  /\ UNCHANGED appVars

\* lines 318-321: and customizes it
Customize ==
  /\ selectedRecipe # NoRecipe
  /\ recipe = NoRecipe
  /\ recipe' = CustomizeRecipe(selectedRecipe, formData,
                               ParseIngredients(formData.ingredients))
  /\ last' = NoOutcome
  /\ UNCHANGED <<formData, selectedRecipe>>
  /\ UNCHANGED <<users, usage, clock, req, started, admitted, taint, historyVars>>
  /\ UNCHANGED appVars

\* line 225 and part_000 lines 97-119: the API answers with the AI's recipe,
\* enhanced
Enhance(ai) ==
  /\ formData # NoForm
  /\ selectedRecipe = NoRecipe
  /\ recipe = NoRecipe
  /\ recipe' = EnhanceRecipe(ai, [cuisine |-> formData.cuisine])
  /\ UNCHANGED <<formData, selectedRecipe>>
  /\ UNCHANGED <<users, usage, clock, req, started, admitted, taint, last, historyVars>>
  /\ UNCHANGED appVars

\* one submitted form: nothing requested of the backend's tables
InitRecipe ==
  /\ users = [u \in Users |-> DefaultUser]
  /\ usage = [k \in Keys |-> NoUsage]
  /\ clock = 1
  /\ req = [r \in Reqs |-> IdleSlot]
  /\ started = 0
  /\ admitted = [k \in Keys |-> 0]
  /\ taint = [k \in Keys |-> "clean"]
  /\ last = NoOutcome
  /\ upgraded = [u \in Users |-> FALSE]
  /\ cancelled = [u \in Users |-> FALSE]
  /\ formData \in FormDatas
  /\ selectedRecipe = NoRecipe
  /\ recipe = NoRecipe
  /\ currentScreen = "landing"
  /\ recipeCount = 0
  /\ isGenerating = FALSE
  /\ paywall = FALSE
  /\ timers = <<>>
  /\ run = "idle"
  /\ hostname = "localhost"

NextRecipe ==
  \/ SelectRecipe
  \/ Customize
  \/ \E ai \in AIRecipes : Enhance(ai)

SpecRecipe == InitRecipe /\ [][NextRecipe]_vars

\* ------------------------------------------ src/src/middleware/auth.js
\* The Authorization header as the client sends it; <<>> is a request
\* without the header.  The token <<"u", "1">> is the session of user u1;
\* any other token is one the identity service does not know.
NoHeader == <<>>
Bearer == <<"B", "e", "a", "r", "e", "r">>
Headers ==
  {NoHeader, Bearer, Bearer \o <<" ">>, <<"u", "1">>,
   Bearer \o <<" ", "u", "1">>, Bearer \o <<" ", "x">>}

\* const token = authHeader && authHeader.split(' ')[1]; <<>> is a token
\* that is undefined or empty, which `if (token)` treats alike
TokenOf(authHeader) ==
  IF authHeader = NoHeader THEN <<>>
  ELSE LET pieces == Split(authHeader, {" "})
       IN IF Len(pieces) >= 2 THEN pieces[2] ELSE <<>>

\* supabase.auth.getUser(token): the user of a known session, an error for
\* an unknown one; during an outage the call resolves with an error or with
\* neither user nor error, or it rejects
Outages == {"none", "error", "empty", "throws"}
GetUser(token, outage) ==
  IF outage = "throws" THEN [user |-> NoUser, error |-> FALSE, threw |-> TRUE]
  ELSE IF outage = "error" THEN [user |-> NoUser, error |-> TRUE, threw |-> FALSE]
  ELSE IF outage = "empty" THEN [user |-> NoUser, error |-> FALSE, threw |-> FALSE]
  ELSE IF token = <<"u", "1">> THEN [user |-> "u1", error |-> FALSE, threw |-> FALSE]
  ELSE [user |-> NoUser, error |-> TRUE, threw |-> FALSE]

\* what a middleware of this file did: the status and code it answered
\* (0, "none": it answered nothing), how often it called next(), and the
\* req.user the next handler sees
AuthOutcome(kind, status, code, calls, user, token) ==
  [kind |-> kind, status |-> status, code |-> code, calls |-> calls,
   user |-> user, token |-> token,
   upgradeUrl |-> IF status = 403 THEN "/membership" ELSE "none"]

\* lines 11-43
AuthenticateToken(authHeader, outage) ==
  LET token == TokenOf(authHeader)
      res == GetUser(token, outage)
  IN IF token = <<>>
       THEN AuthOutcome("authenticateToken", 401, "NO_TOKEN", 0, NoUser, token)
     ELSE IF res.threw
       THEN AuthOutcome("authenticateToken", 401, "TOKEN_ERROR", 0, NoUser, token)
     ELSE IF res.error \/ res.user = NoUser
       THEN AuthOutcome("authenticateToken", 401, "INVALID_TOKEN", 0, NoUser, token)
     ELSE AuthOutcome("authenticateToken", 0, "none", 1, res.user, token)

\* lines 46-63
OptionalAuthStrict(authHeader, outage) ==
  LET token == TokenOf(authHeader)
      res == GetUser(token, outage)
  IN IF token = <<>>
       THEN AuthOutcome("optionalAuth", 0, "none", 1, NoUser, token)
     ELSE IF res.threw \/ res.error \/ res.user = NoUser
       THEN AuthOutcome("optionalAuth", 401, "INVALID_TOKEN", 0, NoUser, token)
     ELSE AuthOutcome("optionalAuth", 0, "none", 1, res.user, token)
OptionalAuth(authHeader, outage) ==
  LET token == TokenOf(authHeader)
      res == GetUser(token, outage)
  IN IF token # <<>> /\ ~res.threw /\ ~res.error /\ res.user # NoUser
       THEN AuthOutcome("optionalAuth", 0, "none", 1, res.user, token)
     ELSE AuthOutcome("optionalAuth", 0, "none", 1, NoUser, token)

\* lines 66-100; threw: the select rejects instead of resolving
RequirePremiumByStatus(reqUser, tbl, fault, threw) ==
  IF reqUser = NoUser
    THEN AuthOutcome("requirePremium", 401, "AUTH_REQUIRED", 0, reqUser, <<>>)
  ELSE IF threw \/ fault
    THEN AuthOutcome("requirePremium", 500, "none", 0, reqUser, <<>>)
  ELSE IF tbl[reqUser].subscription_status # "active"
    THEN AuthOutcome("requirePremium", 403, "PREMIUM_REQUIRED", 0, reqUser, <<>>)
  ELSE AuthOutcome("requirePremium", 0, "none", 1, reqUser, <<>>)
RequirePremium(reqUser, tbl, fault, threw) ==
  IF reqUser = NoUser
    THEN AuthOutcome("requirePremium", 401, "AUTH_REQUIRED", 0, reqUser, <<>>)
  ELSE IF threw
    THEN AuthOutcome("requirePremium", 500, "none", 0, reqUser, <<>>)
  ELSE LET res == SelectUser(tbl, reqUser, fault)
       IN IF res.error # "none"
            THEN AuthOutcome("requirePremium", 500, "none", 0, reqUser, <<>>)
          ELSE IF \/ res.data = NoUserRow
                  \/ res.data.subscription_status # "active"
                  \/ res.data.subscription_tier # "premium"
            THEN AuthOutcome("requirePremium", 403, "PREMIUM_REQUIRED", 0, reqUser, <<>>)
          ELSE AuthOutcome("requirePremium", 0, "none", 1, reqUser, <<>>)

\* a request reaches authenticateToken (POST /api/subscription/cancel and
\* the routes of src/src/routes/auth.js)
Authenticate(authHeader, outage) ==
  /\ last' = AuthenticateToken(authHeader, outage)
  /\ UNCHANGED <<users, usage, clock, req, started, admitted, taint>>
  /\ UNCHANGED <<historyVars, recipeVars, appVars>>

\* a request reaches optionalAuth
Optional(authHeader, outage) ==
  /\ last' = OptionalAuth(authHeader, outage)
  /\ UNCHANGED <<users, usage, clock, req, started, admitted, taint>>
  /\ UNCHANGED <<historyVars, recipeVars, appVars>>

\* the middleware before it has called next(): requirePremium runs with the
\* req.user that middleware left
Premium(fault, threw) ==
  /\ last.kind \in {"authenticateToken", "optionalAuth"}
  /\ last.calls = 1
  /\ last' = RequirePremium(last.user, users, fault, threw)
  /\ UNCHANGED <<users, usage, clock, req, started, admitted, taint>>
  /\ UNCHANGED <<historyVars, recipeVars, appVars>>

\* the protected routes while the provider's events change the rows
NextAuth ==
  \/ \E h \in Headers, outage \in Outages : Authenticate(h, outage)
  \/ \E h \in Headers, outage \in Outages : Optional(h, outage)
  \/ \E fault \in BOOLEAN, threw \in BOOLEAN : Premium(fault, threw)
  \/ \E e \in Events : Webhook(e, TRUE, FALSE, FALSE)

SpecAuth == InitSigned /\ [][NextAuth]_vars

\* ------------------------- POST /api/recipe/generate-recipe (part_000)
\* lines 16-41: recipeValidation.  A body carries all five fields, as the
\* client sends them; optional() excuses an undefined field only, so an
\* empty skillLevel is checked against the list and refused.
Validate(body) ==
  /\ Len(body.ingredients) >= 3
  /\ Len(body.ingredients) <= 500
  /\ body.cuisine \in {"korean", "italian", "asian", "mexican", "american",
                       "mediterranean", "indian", "french", ""}
  /\ body.cookingTime \in {"quick", "medium", "long", "extended", ""}
  /\ body.dietary \in
       {Vegetarian, Vegan, GlutenFree, <<"l", "o", "w", "-", "c", "a", "r", "b">>,
        Keto, <<"h", "i", "g", "h", "-", "p", "r", "o", "t", "e", "i", "n">>, <<>>}
  /\ body.skillLevel \in {"beginner", "intermediate", "advanced"}

\* the bodies the route is sent: one that passes, and one each with an
\* unset skill level, too short an ingredient text and an unknown cuisine
GoodBody ==
  [ingredients |-> <<"dalg", "ga", "seum", "sal">>, cuisine |-> "korean",
   cookingTime |-> "", dietary |-> <<>>, skillLevel |-> "beginner"]
Bodies ==
  {GoodBody, [GoodBody EXCEPT !.skillLevel = ""],
   [GoodBody EXCEPT !.ingredients = <<"bab">>],
   [GoodBody EXCEPT !.cuisine = "fusion"]}

\* what openai.chat.completions.create can do: reject with an error code, or
\* resolve with a text that may not be JSON and whose ingredients and
\* instructions are arrays, are something else (a text, null), or are missing
LLMErrors == {"insufficient_quota", "rate_limit_exceeded", "other"}
ListShapes == {"array", "text", "absent"}
Completions ==
  [error : LLMErrors, json : {FALSE}, recipe : {NoRecipe}, lists : {"absent"}]
  \cup [error : {"none"}, json : {FALSE}, recipe : {NoRecipe}, lists : {"absent"}]
  \cup [error : {"none"}, json : {TRUE}, recipe : AIRecipes, lists : ListShapes]

\* part_000 lines 268-277: the Array.isArray defaults come first and
\* ...recipe after them, so a list the AI sent is kept as it was sent and only
\* a missing one becomes []
EnhanceLists(lists) == IF lists = "absent" THEN "array" ELSE lists

\* what the route answers.  lists is "none" where there is no recipe;
\* admitted and valid tell which middleware the answer comes from
Response(status, code, upgradeUrl, rcp, lists, wasAdmitted, valid) ==
  [status |-> status, code |-> code, upgradeUrl |-> upgradeUrl, recipe |-> rcp,
   lists |-> lists, admitted |-> wasAdmitted, valid |-> valid]

\* lines 48-150: the handler behind the middleware
RouteHandler(body, completion) ==
  IF ~Validate(body)
    THEN Response(400, "none", "none", NoRecipe, "none", TRUE, FALSE)
  ELSE IF completion.error = "insufficient_quota"
    THEN Response(503, "SERVICE_UNAVAILABLE", "none", NoRecipe, "none", TRUE, TRUE)
  ELSE IF completion.error = "rate_limit_exceeded"
    THEN Response(429, "RATE_LIMIT", "none", NoRecipe, "none", TRUE, TRUE)
  ELSE IF completion.error # "none" \/ ~completion.json
    THEN Response(500, "GENERATION_FAILED", "none", NoRecipe, "none", TRUE, TRUE)
  ELSE Response(200, "none", "none",
                EnhanceRecipe(completion.recipe, [cuisine |-> body.cuisine]),
                EnhanceLists(completion.lists), TRUE, TRUE)

\* the handler writes nothing to recipe_usage, whatever it answers
UsageAfterHandlerRefunds(tbl, k, status) ==
  IF status # 200 /\ k \in DOMAIN tbl /\ tbl[k].exists
    THEN [tbl EXCEPT ![k] = UsageRow(tbl[k].count - 1)]
  ELSE tbl
UsageAfterHandler(tbl, k, status) == tbl

\* what the handler answered to the request the limiter had just admitted
HandlerOutcome(admission, response) ==
  [kind |-> "handler", userId |-> admission.userId, key |-> admission.key,
   status |-> response.status, code |-> response.code, valid |-> response.valid,
   lists |-> response.lists]

\* line 45, then rateLimiter.js lines 24-35: optionalAuth, then the limiter
Arrive(r, authHeader, outage, ip) ==
  /\ started < MaxInterleaved
  /\ LET arrival == OptionalAuth(authHeader, outage)
     IN StartAfter(r, arrival.user, ip, arrival)

\* lines 47-150: the limiter has called next(); validation and the handler
\* run.  They touch neither table, so they are taken as one step.
Handle(body, completion) ==
  /\ last.kind = "limiter"
  /\ last.next
  /\ LET response == RouteHandler(body, completion)
     IN /\ last' = HandlerOutcome(last, response)
        /\ usage' = UsageAfterHandler(usage, last.key, response.status)
  /\ UNCHANGED <<users, clock, req, started, admitted, taint>>
  /\ UNCHANGED <<historyVars, recipeVars, appVars>>

NextRoute ==
  \/ \E r \in Reqs, h \in Headers, outage \in Outages, ip \in IPs :
       Arrive(r, h, outage, ip)
  \/ \E r \in Reqs, fault \in BOOLEAN : CheckUser(r, fault)
  \/ \E r \in Reqs, fault \in BOOLEAN : ReadUsage(r, fault)
  \/ \E r \in Reqs, fault \in BOOLEAN : WriteUsage(r, fault)
  \/ \E body \in Bodies, completion \in Completions : Handle(body, completion)

SpecRoute == Init /\ [][NextRoute]_vars

\* ----------------------------------------- RecipeApp, the browser client
\* (src/server.js lines 106-283).  The page carries the elements the script
\* looks up; a run of generateRecipe is suspended only in callRecipeAPI.
MaxPending == 2      \* screen switches waiting for their 300 ms timer

freeRecipes == 3     \* this.maxFreeRecipes

\* the ids of the data-screen buttons: two screens of the page and an id
\* no element has
ScreenIds == {"generator", "result", "missing"}
Screens == {"landing", "generator", "result"}
Hostnames == {"localhost", "recipes.example"}

\* lines 161-186: nothing while a run is generating, otherwise the switch
\* waits for its timer
ShowScreen(pending, generating, screenId) ==
  IF generating THEN pending ELSE Append(pending, screenId)

\* lines 285-293
GetFormData(form) == [form EXCEPT !.ingredients = Trim(@)]

\* what the fields of the form hold at a submit
Fields ==
  {[GoodBody EXCEPT !.ingredients = <<" ">>],
   [GoodBody EXCEPT !.ingredients = <<" ">> \o @],
   [GoodBody EXCEPT !.skillLevel = "", !.cuisine = ""]}

\* lines 301-322: the recipes createPrototypeRecipe can return for a form
CreatePrototypeRecipe(form) ==
  LET userIngredients == ParseIngredients(form.ingredients)
      selected ==
        IF CuisineHasTemplates(getRecipeTemplates, form.cuisine)
          THEN {getRecipeTemplates[form.cuisine][i] :
                  i \in 1..Len(getRecipeTemplates[form.cuisine])}
        ELSE {FindBestMatchingRecipe(userIngredients, getRecipeTemplates)}
  IN {CustomizeRecipe(s, form, userIngredients) : s \in selected}

\* what fetch can bring back for a form: the handler's answers, the
\* limiter's 429 and 500, and no answer at all (fetch rejects)
LimiterRejects ==
  {Response(429, "none", LimitResponse(maxFreeRecipes).upgradeUrl, NoRecipe,
            "none", FALSE, FALSE),
   Response(500, "none", "none", NoRecipe, "none", FALSE, FALSE)}
NetworkError == Response(0, "network", "none", NoRecipe, "none", FALSE, FALSE)
Replies(form) ==
  {RouteHandler(form, c) : c \in Completions} \cup LimiterRejects \cup {NetworkError}

\* lines 258-283: "recipe" (return data.recipe), "undefined" (the paywall
\* branch returns nothing) or "throws"
CallRecipeAPI(reply) ==
  IF reply.status = 200 THEN "recipe"
  ELSE IF reply.status = 429 /\ reply.upgradeUrl # "none" THEN "undefined"
  ELSE "throws"

\* lines 807-863: the template reads recipe.name and maps over
\* recipe.ingredients and recipe.instructions
DisplayRecipeThrows(defined, lists) == ~defined \/ lists # "array"

\* how a run ended: whether the API was asked and what it answered, whether
\* the template path was taken, and whether a recipe was displayed
RunOutcome(asked, reply, fellBack, displayed) ==
  [kind |-> "run", asked |-> asked, status |-> reply.status,
   admitted |-> reply.admitted, valid |-> reply.valid, lists |-> reply.lists,
   fellBack |-> fellBack, displayed |-> displayed]

SubmitOutcome(effect) == [kind |-> "submit", effect |-> effect]

\* lines 235-255: displayRecipe to the end of the finally block, generating
\* being this.isGenerating as line 245 finds it
FinishWithoutFinally(rcp, defined, lists, generating, outcome) ==
  IF DisplayRecipeThrows(defined, lists)
    THEN /\ UNCHANGED <<recipe, recipeCount, timers, isGenerating, run>>
         /\ last' = [outcome EXCEPT !.displayed = FALSE]
  ELSE /\ recipe' = rcp
       /\ recipeCount' = recipeCount + 1
       /\ timers' = ShowScreen(timers, generating, "result")
       /\ last' = [outcome EXCEPT !.displayed = TRUE]
       /\ isGenerating' = FALSE
       /\ run' = "idle"
Finish(rcp, defined, lists, generating, outcome) ==
  /\ IF DisplayRecipeThrows(defined, lists)
       THEN /\ UNCHANGED <<recipe, recipeCount, timers>>
            /\ last' = [outcome EXCEPT !.displayed = FALSE]
       ELSE /\ recipe' = rcp
            /\ recipeCount' = recipeCount + 1
            /\ timers' = ShowScreen(timers, generating, "result")
            /\ last' = [outcome EXCEPT !.displayed = TRUE]
  /\ isGenerating' = FALSE
  /\ run' = "idle"

\* lines 146-149 and 188-233: the form is submitted
Submit(form) ==
  /\ IF isGenerating
       THEN /\ last' = SubmitOutcome("ignored")
            /\ UNCHANGED <<formData, recipe, recipeCount, isGenerating, paywall,
                           timers, run>>
     ELSE IF recipeCount >= freeRecipes
       THEN /\ paywall' = TRUE
            /\ last' = SubmitOutcome("paywall")
            /\ UNCHANGED <<formData, recipe, recipeCount, isGenerating, timers, run>>
     ELSE IF Trim(form.ingredients) = <<>>
       THEN /\ last' = SubmitOutcome("alert")
            /\ UNCHANGED <<formData, recipe, recipeCount, isGenerating, paywall,
                           timers, run>>
     ELSE /\ formData' = GetFormData(form)
          /\ paywall' = paywall
          /\ IF hostname \in {"localhost", "127.0.0.1"}
               THEN /\ isGenerating' = TRUE
                    /\ run' = "callRecipeAPI"
                    /\ last' = SubmitOutcome("started")
                    /\ UNCHANGED <<recipe, recipeCount, timers>>
               ELSE \E rcp \in CreatePrototypeRecipe(GetFormData(form)) :
                      Finish(rcp, TRUE, "array", TRUE,
                             RunOutcome(FALSE, NetworkError, TRUE, FALSE))
  /\ UNCHANGED <<currentScreen, hostname, selectedRecipe>>
  /\ UNCHANGED <<users, usage, clock, req, started, admitted, taint, historyVars>>

\* lines 224-233 and 258-283: fetch settles and the run goes on to its end
ApiReply(reply) ==
  /\ run = "callRecipeAPI"
  /\ reply \in Replies(formData)
  /\ LET returned == CallRecipeAPI(reply)
     IN /\ paywall' = (paywall \/ returned = "undefined")
        /\ IF returned = "throws"
             THEN \E rcp \in CreatePrototypeRecipe(formData) :
                    Finish(rcp, TRUE, "array", isGenerating,
                           RunOutcome(TRUE, reply, TRUE, FALSE))
             ELSE Finish(reply.recipe, returned = "recipe", reply.lists,
                         isGenerating, RunOutcome(TRUE, reply, FALSE, FALSE))
  /\ UNCHANGED <<currentScreen, hostname, formData, selectedRecipe>>
  /\ UNCHANGED <<users, usage, clock, req, started, admitted, taint, historyVars>>

\* lines 123-158: a click on a data-screen button, inside the paywall or
\* not; inside it the second listener hides the paywall and calls
\* showScreen again
Click(screenId, inPaywall) ==
  /\ inPaywall => paywall
  /\ Len(timers) + (IF inPaywall THEN 2 ELSE 1) <= MaxPending
  /\ timers' = IF inPaywall
                 THEN ShowScreen(ShowScreen(timers, isGenerating, screenId),
                                 isGenerating, screenId)
               ELSE ShowScreen(timers, isGenerating, screenId)
  /\ paywall' = (paywall /\ ~inPaywall)
  /\ last' = NoOutcome
  /\ UNCHANGED <<currentScreen, recipeCount, isGenerating, run, hostname, recipeVars>>
  /\ UNCHANGED <<users, usage, clock, req, started, admitted, taint, historyVars>>

\* lines 132-140: the paywall's close button and the save button
Paywall(shown) ==
  /\ paywall' = shown
  /\ last' = NoOutcome
  /\ UNCHANGED <<currentScreen, recipeCount, isGenerating, timers, run, hostname,
                 recipeVars>>
  /\ UNCHANGED <<users, usage, clock, req, started, admitted, taint, historyVars>>

\* lines 175-185: the timer of the oldest pending switch fires
Timeout ==
  /\ timers # <<>>
  /\ currentScreen' = IF Head(timers) \in Screens THEN Head(timers)
                      ELSE currentScreen
  /\ timers' = Tail(timers)
  /\ last' = NoOutcome
  /\ UNCHANGED <<recipeCount, isGenerating, paywall, run, hostname, recipeVars>>
  /\ UNCHANGED <<users, usage, clock, req, started, admitted, taint, historyVars>>

\* the page as the constructor leaves it, served from either host
InitClient ==
  /\ users = [u \in Users |-> DefaultUser]
  /\ usage = [k \in Keys |-> NoUsage]
  /\ clock = 1
  /\ req = [r \in Reqs |-> IdleSlot]
  /\ started = 0
  /\ admitted = [k \in Keys |-> 0]
  /\ taint = [k \in Keys |-> "clean"]
  /\ last = NoOutcome
  /\ upgraded = [u \in Users |-> FALSE]
  /\ cancelled = [u \in Users |-> FALSE]
  /\ formData = NoForm
  /\ selectedRecipe = NoRecipe
  /\ recipe = NoRecipe
  /\ currentScreen = "landing"
  /\ recipeCount = 0
  /\ isGenerating = FALSE
  /\ paywall = FALSE
  /\ timers = <<>>
  /\ run = "idle"
  /\ hostname \in Hostnames

NextClient ==
  \/ \E form \in Fields : Submit(form)
  \/ \E reply \in Replies(formData) : ApiReply(reply)
  \/ \E screenId \in ScreenIds, inPaywall \in BOOLEAN : Click(screenId, inPaywall)
  \/ \E shown \in BOOLEAN : Paywall(shown)
  \/ Timeout

\* the browser fires every timer it was given (setTimeout, lines 169 and
\* 176); what the user does, and when a fetch settles, is not promised
SpecClient ==
  /\ InitClient
  /\ [][NextClient]_vars
  /\ WF_vars(Timeout)

\* ------------------------------------------------------------------ claims

\* C1: for an identifier and day with no overlapping requests and no store
\* fault, the stored count equals the number of admitted requests and never
\* passes 3; an answered request was either admitted or, exactly when three
\* had been admitted, rejected with 429, limit = 3 and current = 3.
C1_SequentialQuota ==
  \A k \in Keys : taint[k] = "clean" =>
    /\ admitted[k] <= 3
    /\ CurrentCount(usage[k]) = admitted[k]
    /\ usage[k].exists <=> admitted[k] > 0
    /\ (last.kind = "limiter" /\ last.key = k) =>
         /\ last.status \in {0, 429}
         /\ last.status = 0 => last.next /\ admitted[k] >= 1
         /\ last.status = 429 =>
              /\ ~last.next
              /\ admitted[k] = 3
              /\ last.body.status = 429
              /\ last.body.limit = 3
              /\ last.body.current = 3

\* an anonymous caller, starting the day without a row, is rejected on the
\* request after its third admission
C1_Witness ==
  /\ last.kind = "limiter"
  /\ last.status = 429
  /\ last.userId = NoUser
  /\ last.key \in Keys
  /\ taint[last.key] = "clean"
  /\ admitted[last.key] = 3
  /\ usage[last.key] = UsageRow(3)

\* C2: whatever the interleaving of the requests of one identifier on one
\* day, as long as no store operation fails, at most 3 of them are admitted.
C2_AtMostThreeAdmitted ==
  \A k \in Keys : taint[k] # "fault" => admitted[k] <= 3

\* C3: a request whose user row is (active, premium) when the limiter reads
\* it ends right there, admitted (or with 500 if the read fails), and every
\* request answered 429 had read a row that was not (active, premium).
C3_PremiumNeverLimited ==
  [][\A r \in Reqs :
       /\ (/\ req[r].pc = "checkUser"
           /\ users[req[r].userId] = PremiumUser
           /\ req'[r] # req[r])
          => /\ req'[r].pc = "idle"
             /\ last'.kind = "limiter"
             /\ last'.status \in {0, 500}
             /\ last'.status = 0 => last'.next
       /\ (/\ req[r].pc = "selectUsage"
           /\ req'[r].pc = "idle"
           /\ last'.kind = "limiter"
           /\ last'.status = 429)
          => req[r].user # PremiumUser]_vars

\* a premium user is admitted although the day's stored count is 3
C3_Witness ==
  /\ last.kind = "limiter"
  /\ last.next
  /\ last.key = NoKey
  /\ last.userId \in Users
  /\ users[last.userId] = PremiumUser
  /\ usage[<<last.userId, clock>>] = UsageRow(3)

\* C4: the step in which the limiter reads an (active, premium) user row
\* leaves recipe_usage and the admission counts as they were and ends the
\* request, so no select, insert or update on recipe_usage follows from it.
C4_PremiumLeavesUsageAlone ==
  [][\A r \in Reqs :
       (/\ req[r].pc = "checkUser"
        /\ users[req[r].userId] = PremiumUser
        /\ req'[r] # req[r])
       => /\ usage' = usage
          /\ admitted' = admitted
          /\ req'[r] = IdleSlot]_vars

\* a premium user was admitted and has no usage row for the day
C4_Witness ==
  /\ last.kind = "limiter"
  /\ last.next
  /\ last.key = NoKey
  /\ last.userId \in Users
  /\ users[last.userId] = PremiumUser
  /\ \A q \in Reqs : req[q].pc = "idle"
  /\ ~usage[<<last.userId, clock>>].exists

\* C5: the step that answers 429 was taken on a stored count of at least 3,
\* leaves recipe_usage unchanged and does not call next().
C5_RejectionWritesNothing ==
  [][\A r \in Reqs :
       (/\ req[r].pc = "selectUsage"
        /\ req'[r].pc = "idle"
        /\ last'.kind = "limiter"
        /\ last'.status = 429)
       => /\ CurrentCount(usage[KeyOf(req[r])]) >= 3
          /\ usage' = usage
          /\ admitted' = admitted
          /\ ~last'.next]_vars

\* a rejected request, with the stored count still what the answer reports
C5_Witness ==
  /\ last.kind = "limiter"
  /\ last.status = 429
  /\ ~last.next
  /\ usage[last.key] = UsageRow(last.body.current)

\* C6: a usage read that fails is answered 500, admits nothing and writes
\* nothing; a read that finds no row goes on to the write with count 0.
C6_ReadFailureFailsClosed ==
  [][\A r \in Reqs :
       /\ ReadUsage(r, TRUE)
          => /\ last'.kind = "limiter"
             /\ last'.status = 500
             /\ ~last'.next
             /\ usage' = usage
             /\ admitted' = admitted
             /\ req'[r] = IdleSlot
       /\ (ReadUsage(r, FALSE) /\ ~usage[KeyOf(req[r])].exists)
          => /\ req'[r].pc = "write"
             /\ req'[r].currentCount = 0
             /\ ~req'[r].usageRecord.exists
             /\ last' = NoOutcome]_vars

\* a request answered 500 on its usage read, with nothing stored or admitted
C6_Witness ==
  /\ last.kind = "limiter"
  /\ last.status = 500
  /\ last.key \in Keys
  /\ ~usage[last.key].exists
  /\ admitted[last.key] = 0

\* C7: a failed insert or update still ends in next(), and the stored row
\* keeps its previous value.
C7_WriteFailureStillAdmits ==
  [][\A r \in Reqs :
       WriteUsage(r, TRUE)
       => /\ last'.kind = "limiter"
          /\ last'.next
          /\ last'.status = 0
          /\ usage' = usage
          /\ admitted'[KeyOf(req[r])] = admitted[KeyOf(req[r])] + 1]_vars

\* after a failed write more requests were admitted than the row counts
C7_Witness ==
  /\ last.kind = "limiter"
  /\ last.next
  /\ last.writeFailed
  /\ admitted[last.key] > CurrentCount(usage[last.key])

\* C8: every delivery whose signature verifies is answered 200, whatever the
\* event kind and whether or not the store or the provider call fails.
C8_VerifiedAlwaysAcknowledged ==
  (last.kind = "webhook" /\ last.verified) => last.status = 200

\* a delivery answered 200 although the handler's update was refused
C8_Witness ==
  /\ last.kind = "webhook"
  /\ last.verified
  /\ last.status = 200
  /\ last.handler # "none"
  /\ last.updateFailed

\* C9: a delivery whose signature does not verify is answered 400, no
\* handler runs for it and the users table is unchanged.
C9_UnverifiedRejected ==
  [][(last'.kind = "webhook" /\ ~last'.verified)
     => /\ last'.status = 400
        /\ last'.handler = "none"
        /\ users' = users]_vars

\* a delivery answered 400
C9_Witness ==
  /\ last.kind = "webhook"
  /\ ~last.verified
  /\ last.status = 400
  /\ last.handler = "none"

\* C10: a verified customer.subscription.deleted event whose update the
\* store accepts leaves the user cancelled and free, whatever the row was.
C10_DeletedCancels ==
  [][(/\ last'.kind = "webhook"
      /\ last'.verified
      /\ last'.handler = "handleSubscriptionDeleted"
      /\ ~last'.updateFailed)
     => /\ users'[last'.userId].subscription_status = "cancelled"
        /\ users'[last'.userId].subscription_tier = "free"]_vars

\* handleSubscriptionDeleted has run and the user is cancelled and free
C10_Witness ==
  /\ last.kind = "webhook"
  /\ last.handler = "handleSubscriptionDeleted"
  /\ ~last.updateFailed
  /\ users[last.userId] =
       [subscription_status |-> "cancelled", subscription_tier |-> "free"]

\* C11: delivering the same verified event twice in a row, neither delivery
\* meeting a store or provider outage, leaves every user's status and tier
\* after the second delivery equal to what they were after the first, for
\* each of the six handled kinds.
C11_SameEventTwice ==
  [][(/\ last'.kind = "webhook"
      /\ last'.repeat
      /\ last'.handler # "none")
     => \A u \in Users :
          /\ users'[u].subscription_status = users[u].subscription_status
          /\ users'[u].subscription_tier = users[u].subscription_tier]_vars

C11_Witness ==
  /\ last.kind = "webhook"
  /\ last.repeat
  /\ last.handler = "handleSubscriptionCreated"
  /\ users[last.userId] = PremiumUser

\* C12: once a verified checkout-completed event for the premium plan or a
\* verified subscription-created event has been applied for a user, the
\* user's row is (active, premium) until another event changes it, and every
\* request of that user whose row the limiter reads meanwhile goes through
\* next() without looking at or changing the usage counter.
C12_UpgradeBypassesQuota ==
  /\ [](\A u \in Users : upgraded[u] => users[u] = PremiumUser)
  /\ [][\A r \in Reqs :
          (/\ req[r].pc = "checkUser"
           /\ upgraded[req[r].userId]
           /\ CheckUser(r, FALSE))
          => /\ last'.next
             /\ last'.status = 0
             /\ last'.key = NoKey
             /\ usage' = usage]_vars

C12_Witness ==
  /\ last.kind = "limiter"
  /\ last.userId \in Users
  /\ upgraded[last.userId]
  /\ last.next
  /\ last.key = NoKey

\* C13: every user row's subscription_status is one of free, active,
\* cancelled, past_due, trialing and its subscription_tier is free or
\* premium, whatever events were delivered, subscription-updated events
\* (which copy the provider's status) and checkout-completed events (which
\* copy the plan of the metadata) included.
C13_RowsStayInDomain ==
  \A u \in Users :
    /\ users[u].subscription_status \in StatusValues
    /\ users[u].subscription_tier \in TierValues

C13_Witness ==
  /\ last.kind = "webhook"
  /\ last.handler = "handleSubscriptionUpdated"
  /\ ~last.updateFailed
  /\ last.event.object.status = "past_due"
  /\ users[last.userId].subscription_status = "past_due"

\* C14: a delivery of an invoice-payment-failed event, or of an event of a
\* kind other than the six handled ones, leaves every user row unchanged.
C14_IgnoredEventsChangeNothing ==
  [][(/\ last'.kind = "webhook"
      /\ \/ last'.event.type = "invoice.payment_failed"
         \/ HandlerFor(last'.event.type) = "none")
     => users' = users]_vars

C14_Witness ==
  /\ last.kind = "webhook"
  /\ last.verified
  /\ last.status = 200
  /\ \/ last.handler = "handlePaymentFailed"
     \/ HandlerFor(last.event.type) = "none"

\* C15: the template findBestMatchingRecipe returns belongs to the catalog
\* and no template of the catalog, whatever its cuisine category, contains
\* more of the user's ingredient tokens in its joined ingredient text.
C15_BestMatchOverCatalog ==
  (selectedRecipe # NoRecipe /\ formData.cuisine \notin DOMAIN getRecipeTemplates)
  => LET userIngredients == ParseIngredients(formData.ingredients)
     IN /\ \E i \in 1..Len(Catalog) : Catalog[i] = selectedRecipe
        /\ \A i \in 1..Len(Catalog) :
             Score(Catalog[i], userIngredients)
               <= Score(selectedRecipe, userIngredients)

\* C16: the template findBestMatchingRecipe returns is the first, in the
\* catalog's iteration order, of the templates with the highest score, and
\* the first template of the catalog when no template scores above zero.
C16_FirstOfTheBest ==
  (selectedRecipe # NoRecipe /\ formData.cuisine \notin DOMAIN getRecipeTemplates)
  => LET userIngredients == ParseIngredients(formData.ingredients)
         score == [i \in 1..Len(Catalog) |-> Score(Catalog[i], userIngredients)]
         highest == Max({score[i] : i \in 1..Len(Catalog)})
         first == Min({i \in 1..Len(Catalog) : score[i] = highest})
     IN /\ selectedRecipe = Catalog[first]
        /\ highest = 0 => selectedRecipe = Catalog[1]

C18_DietaryReplacesEveryOccurrence ==
  (recipe # NoRecipe /\ selectedRecipe # NoRecipe)
  => IF formData.dietary \in {Vegetarian, Vegan, GlutenFree, Keto}
       THEN \A k \in 1..Len(restrictions[formData.dietary]),
               i \in 1..Len(recipe.ingredients) :
              LET from == restrictions[formData.dietary][k].from
                  to == restrictions[formData.dietary][k].to
                  ingredient == recipe.ingredients[i]
                  At(t, p) == /\ p + Len(t) <= Len(ingredient)
                              /\ \A j \in 1..Len(t) : ingredient[p + j] = t[j]
              IN \A p \in 0..Len(ingredient) :
                   At(from, p)
                   => \E q \in 0..p : At(to, q) /\ p + Len(from) <= q + Len(to)
     ELSE /\ recipe.name = AddCuisineEmoji(selectedRecipe.name, formData.cuisine)
          /\ SubSeq(recipe.ingredients, 1, Len(selectedRecipe.ingredients))
               = selectedRecipe.ingredients

\* C19 as stated: the returned list is the template's list followed, in the
\* order typed, by exactly the user ingredients of 3 or more characters that
\* are not a case-insensitive substring of an ingredient already in the list.
C19_AppendsEveryNewIngredient ==
  (recipe # NoRecipe /\ selectedRecipe # NoRecipe)
  => LET userIngredients == ParseIngredients(formData.ingredients)
         expected[j \in 0..Len(userIngredients)] ==
           IF j = 0 THEN selectedRecipe.ingredients
           ELSE LET list == expected[j - 1]
                IN IF /\ Len(userIngredients[j]) >= 3
                      /\ \A i \in 1..Len(list) :
                           ~Includes(ToLowerCase(list[i]), userIngredients[j])
                     THEN Append(list, userIngredients[j] \o QuantityMarker)
                   ELSE list
     IN recipe.ingredients = expected[Len(userIngredients)]

\* C19, amended: the returned list is the template's list followed, in the
\* order typed, by exactly the user ingredients of 3 or more characters that
\* are not a case-insensitive substring of an ingredient already in the list
\* and do not themselves contain the first word of such an ingredient; no
\* template ingredient is removed or reordered.
C19_AppendsUnmatchedIngredients ==
  (recipe # NoRecipe /\ selectedRecipe # NoRecipe)
  => LET userIngredients == ParseIngredients(formData.ingredients)
         FirstWord(s) == IF \E i \in 1..Len(s) : s[i] = " "
                           THEN SubSeq(s, 1, Min({i \in 1..Len(s) : s[i] = " "}) - 1)
                         ELSE s
         expected[j \in 0..Len(userIngredients)] ==
           IF j = 0 THEN selectedRecipe.ingredients
           ELSE LET list == expected[j - 1]
                IN IF /\ Len(userIngredients[j]) >= 3
                      /\ \A i \in 1..Len(list) :
                           /\ ~Includes(ToLowerCase(list[i]), userIngredients[j])
                           /\ ~Includes(userIngredients[j],
                                        FirstWord(ToLowerCase(list[i])))
                     THEN Append(list, userIngredients[j] \o QuantityMarker)
                   ELSE list
     IN recipe.ingredients = expected[Len(userIngredients)]

C19_Witness ==
  /\ recipe # NoRecipe
  /\ selectedRecipe # NoRecipe
  /\ Len(recipe.ingredients) > Len(selectedRecipe.ingredients)
  /\ LET userIngredients == ParseIngredients(formData.ingredients)
     IN \E j \in 1..Len(userIngredients) :
          /\ Len(userIngredients[j]) >= 3
          /\ \A i \in 1..Len(recipe.ingredients) :
               ~Includes(ToLowerCase(recipe.ingredients[i]), userIngredients[j])

\* C20: the difficulty of the recipe customizeRecipe returns is easy for
\* skill level beginner, medium for intermediate, hard for advanced, and the
\* template's own difficulty for any other skill level or none.
C20_DifficultyFromSkill ==
  (recipe # NoRecipe /\ selectedRecipe # NoRecipe)
  => recipe.difficulty =
       CASE formData.skillLevel = "beginner" -> "easy"
         [] formData.skillLevel = "intermediate" -> "medium"
         [] formData.skillLevel = "advanced" -> "hard"
         [] OTHER -> selectedRecipe.difficulty

C20_Witness ==
  /\ recipe # NoRecipe
  /\ selectedRecipe.difficulty = "medium"
  /\ formData.skillLevel = "expert"
  /\ recipe.difficulty = "medium"

\* C25: a request that computed the date d reads and writes no row but
\* (identifier, d); with no row for (identifier, d) and no store fault it is
\* not rejected and its insert makes that row count 1, whatever the
\* identifier's rows of other dates hold; no step changes or removes a row of
\* a date before the date of the request taking it.
C25_DatesAreIndependent ==
  [][\A r \in Reqs :
       LET identifier == IF req[r].userId # NoUser THEN req[r].userId ELSE req[r].ip
           mine == <<identifier, req[r].today>>
       IN /\ (req[r].pc \in {"selectUsage", "write"} /\ req'[r] # req[r])
             => \A k \in Keys : k # mine => usage'[k] = usage[k]
          /\ (ReadUsage(r, FALSE) /\ ~usage[mine].exists)
             => req'[r].pc = "write" /\ req'[r].currentCount = 0
          /\ (WriteUsage(r, FALSE) /\ ~usage[mine].exists)
             => /\ usage'[mine] = UsageRow(1)
                /\ last'.next
                /\ last'.key = mine]_vars

\* the day after its third admission an identifier is admitted again, on a
\* new row with count 1 beside the old one with count 3
C25_Witness ==
  /\ last.kind = "limiter"
  /\ last.next
  /\ last.key \in Keys
  /\ last.key[2] = 2
  /\ usage[last.key] = UsageRow(1)
  /\ usage[<<last.key[1], 1>>] = UsageRow(3)

\* C27: whatever the interleaving of the requests and whichever reads and
\* writes fail, every row of recipe_usage that exists holds a count from 1
\* to 3.
C27_StoredCountInRange ==
  \A k \in Keys : usage[k].exists => usage[k].count \in 1..maxFreeRecipes

\* two overlapping requests both read 2 and both wrote 3: four admissions
\* on a row that counts three
C27_Witness ==
  \E k \in Keys :
    /\ taint[k] = "overlap"
    /\ usage[k] = UsageRow(3)
    /\ admitted[k] = 4

\* C28: from the moment a verified subscription-deleted event has been
\* applied to a user until a verified checkout-completed or
\* subscription-created event arrives for that user, the user's row is not
\* (active, premium), whichever subscription-updated, payment-succeeded,
\* payment-failed or unknown events are delivered in between; the limiter's
\* premium test therefore fails for that user throughout.
C28_CancelledStaysLimited ==
  /\ [](\A u \in Users :
          cancelled[u] => /\ ~IsPremium(users[u])
                          /\ users[u].subscription_tier = "free")
  /\ [][\A r \in Reqs :
          (/\ req[r].pc = "checkUser"
           /\ cancelled[req[r].userId]
           /\ CheckUser(r, FALSE))
          => /\ req'[r].pc = "selectUsage"
             /\ last' = NoOutcome]_vars

\* a payment succeeded after the cancellation, so the status is active again
\* and the tier still free, and the user's request went on to the daily quota
C28_Witness ==
  \E r \in Reqs :
    /\ req[r].pc = "selectUsage"
    /\ cancelled[req[r].userId]
    /\ req[r].user = [subscription_status |-> "active",
                      subscription_tier |-> "free"]
    /\ users[req[r].userId] = req[r].user

\* C23: when the form names a cuisine that is a category of the catalog,
\* createPrototypeRecipe selects one of that category's templates and does
\* not call findBestMatchingRecipe; when the cuisine is empty or no category
\* of the catalog, the selected template is the one findBestMatchingRecipe
\* returns.
C23_CuisineDecidesTheCategory ==
  last.kind = "select" =>
    IF \E c \in 1..Len(Categories) : Categories[c] = formData.cuisine
      THEN /\ ~last.matcher
           /\ \E i \in 1..Len(getRecipeTemplates[formData.cuisine]) :
                selectedRecipe = getRecipeTemplates[formData.cuisine][i]
      ELSE /\ last.matcher
           /\ selectedRecipe =
                FindBestMatchingRecipe(ParseIngredients(formData.ingredients),
                                       getRecipeTemplates)

\* the form names the mexican cuisine and ingredients by which the matcher
\* would have chosen a template of another category
C23_Witness ==
  /\ last.kind = "select"
  /\ ~last.matcher
  /\ formData.cuisine = "mexican"
  /\ selectedRecipe = getRecipeTemplates.mexican[1]
  /\ FindBestMatchingRecipe(ParseIngredients(formData.ingredients),
                            getRecipeTemplates) # selectedRecipe

\* C22: authenticateToken answers 401 without calling next() when the
\* header carries no token, when the identity service does not return a
\* user for it and when the verification throws; it calls next() once, with
\* req.user set, in every other case.  requirePremium answers 401 when
\* req.user is absent, 403 with upgradeUrl /membership when the row it reads
\* is not (active, premium), and calls next() only on an (active, premium)
\* row.
C22_AuthStatuses ==
  /\ [](last.kind = "authenticateToken" =>
          \/ last.status = 401 /\ last.calls = 0 /\ last.user = NoUser
          \/ last.status = 0 /\ last.calls = 1 /\ last.user \in Users)
  /\ [][/\ \A h \in Headers, outage \in Outages :
            Authenticate(h, outage) =>
              LET present == \E i \in 1..Len(h) :
                               /\ h[i] = " " /\ i < Len(h) /\ h[i + 1] # " "
                               /\ \A j \in 1..(i - 1) : h[j] # " "
                  known == present /\ h = Bearer \o <<" ", "u", "1">> /\ outage = "none"
              IN IF known THEN last'.status = 0 /\ last'.calls = 1 /\ last'.user = "u1"
                 ELSE last'.status = 401 /\ last'.calls = 0
        /\ \A fault \in BOOLEAN, threw \in BOOLEAN :
            Premium(fault, threw) =>
              /\ last.user = NoUser => last'.status = 401 /\ last'.calls = 0
              /\ (last.user # NoUser /\ ~fault /\ ~threw /\ users[last.user] # PremiumUser)
                   => /\ last'.status = 403
                      /\ last'.upgradeUrl = "/membership"
                      /\ last'.calls = 0
              /\ last'.calls = 1 => /\ last.user # NoUser
                                   /\ users[last.user] = PremiumUser
                                   /\ last'.status = 0
              /\ last'.calls \in {0, 1}]_vars

\* a verified user whose row is active but not premium was answered 403
C22_Witness ==
  /\ last.kind = "requirePremium"
  /\ last.status = 403
  /\ last.upgradeUrl = "/membership"
  /\ last.calls = 0
  /\ last.user \in Users
  /\ users[last.user] = [subscription_status |-> "active",
                         subscription_tier |-> "free"]

\* C26: optionalAuth answers nothing and calls next() once, whatever the
\* header and whatever the identity service does; it sets req.user only for
\* a token that is present and verifies, so the limiter that follows keys a
\* request with a missing, unknown or unverifiable token by the client's IP
\* address and every other request by the user id.
C26_OptionalAuthNeverRejects ==
  /\ [](last.kind = "optionalAuth" =>
          /\ last.status = 0
          /\ last.calls = 1
          /\ last.user # NoUser => last.token = <<"u", "1">>)
  /\ [][\A r \in Reqs, h \in Headers, outage \in Outages, ip \in IPs :
          Arrive(r, h, outage, ip) =>
            LET verified == h = Bearer \o <<" ", "u", "1">> /\ outage = "none"
            IN /\ last'.kind = "optionalAuth"
               /\ last'.user # NoUser <=> verified
               /\ verified => /\ req'[r].userId = "u1"
                               /\ req'[r].pc = "checkUser"
               /\ ~verified => /\ req'[r].userId = NoUser
                                /\ req'[r].pc = "selectUsage"
                                /\ KeyOf(req'[r]) = <<ip, clock>>]_vars
  /\ [](last.kind = "limiter" /\ last.key # NoKey =>
          last.key[1] = IF last.userId = NoUser THEN "ip1" ELSE last.userId)

\* a request with a token the identity service does not know waits for its
\* usage row under the client's address
C26_Witness ==
  /\ last.kind = "optionalAuth"
  /\ last.token = <<"x">>
  /\ last.user = NoUser
  /\ \E r \in Reqs :
       /\ req[r].pc = "selectUsage"
       /\ req[r].userId = NoUser
       /\ KeyOf(req[r]) = <<"ip1", clock>>

\* C24: the limiter's insert or update comes before validation and before
\* the handler: when the handler answers a request admitted on the quota
\* path (200, 400, 429, 500 or 503 alike), the request's row counts it,
\* as many units as requests admitted where no request overlapped and no
\* store operation failed; the handler's step leaves recipe_usage as it
\* is, and no step ever lowers or removes a count.
C24_CountedBeforeValidation ==
  /\ [](last.kind = "handler" /\ last.key # NoKey /\ taint[last.key] = "clean" =>
          /\ usage[last.key].exists
          /\ usage[last.key].count >= 1
          /\ usage[last.key].count = admitted[last.key])
  /\ [][/\ \A body \in Bodies, completion \in Completions :
            Handle(body, completion) => usage' = usage /\ admitted' = admitted
        /\ \A k \in Keys :
            usage[k].exists => /\ usage'[k].exists
                               /\ usage'[k].count >= usage[k].count]_vars

\* a first request of the day was admitted, then refused by validation
\* with 400; its row counts 1
C24_Witness ==
  /\ last.kind = "handler"
  /\ last.status = 400
  /\ ~last.valid
  /\ last.key \in Keys
  /\ taint[last.key] = "clean"
  /\ usage[last.key] = UsageRow(1)
  /\ admitted[last.key] = 1

\* C30: in the client at most one generateRecipe run is in progress: a
\* submit arriving while isGenerating is true changes neither recipeCount nor
\* the request sent nor anything else; isGenerating is false again after
\* every run, displayed or thrown; recipeCount grows by exactly one per run
\* that displayed a recipe, by nothing otherwise, and never passes 3.
C30_StepOfTheApp ==
  /\ (isGenerating /\ last'.kind = "submit") =>
       /\ last'.effect = "ignored"
       /\ UNCHANGED <<appVars, recipeVars>>
  /\ last'.kind = "run" =>
       /\ ~isGenerating'
       /\ run' = "idle"
       /\ recipeCount' = recipeCount + (IF last'.displayed THEN 1 ELSE 0)
  /\ last'.kind # "run" => recipeCount' = recipeCount
C30_OneRunAtATime ==
  /\ [](isGenerating <=> run = "callRecipeAPI")
  /\ [](recipeCount \in 0..freeRecipes)
  /\ [][C30_StepOfTheApp]_vars

\* the third run has displayed its recipe and the paywall is shown
C30_Witness ==
  /\ last.kind = "run" /\ last.displayed
  /\ recipeCount = freeRecipes
  /\ paywall
  /\ ~isGenerating

\* C29: after a generateRecipe run that obtained and displayed a recipe,
\* currentScreen eventually becomes "result".
C29_ResultScreenFollows ==
  (last.kind = "run" /\ last.displayed) ~> (currentScreen = "result")

====
